---- MODULE Spec2Model ----
(***************************************************************************)
(* Instruction decoder of the Teensy Logic Analyzer (6502/65C02, 6800,     *)
(* 6809/6809E, Z80): the decode session state machine of insn_decode.c and *)
(* the per-architecture resolvers and formatters it dispatches to.         *)
(*                                                                         *)
(* A session is the record id (struct insn_decode).  Text is held as TLA+  *)
(* strings: the content of the C buffer up to its terminating NUL.         *)
(* 32-bit addresses are pairs <<hi, lo>> of 16-bit halves, so that the     *)
(* unsigned 32-bit arithmetic of the code wraps as it does in C.           *)
(***************************************************************************)
EXTENDS Integers, Sequences, FiniteSets, TLC

VARIABLES
  cpu,            \* tla.h: the process-wide architecture selector
  id,             \* struct insn_decode: the decode session
  id2,            \* a second decode session, placed in memory right after id
  callee,         \* the session the entry point called last was given
  op,             \* the entry point called last
  ret_continue,   \* result of insn_decode_continue(), when it was called last
  ret_complete,   \* result of insn_decode_complete(), when it was called last
  feeds,          \* continue() calls made on the instruction since its begin()
  seen            \* results of the complete() calls made since the instruction completed

vars == <<cpu, id, id2, callee, op, ret_continue, ret_complete, feeds, seen>>

----------------------------------------------------------------------------
(* Enumerations and limits of insn_decode.h and tla.h *)

CpuTypes == {"cpu_none", "cpu_6502", "cpu_65c02", "cpu_6800", "cpu_6809", "cpu_6809e", "cpu_z80"}

ds_idle == "ds_idle"
ds_fetching == "ds_fetching"
ds_complete == "ds_complete"

INSN_DECODE_MAXBYTES == 8
INSN_DECODE_MAXSTRING == 28

am_invalid == -1
am6809_first == 0
am6809_inherent == 0
am6809_direct == 1
am6809_extended == 2
am6809_rel8 == 3
am6809_rel16 == 4
am6809_imm8 == 5
am6809_imm16 == 6
am6809_zero_off == 7
am6809_zero_off_ind == 8
am6809_const_off5 == 9
am6809_const_off8 == 10
am6809_const_off8_ind == 11
am6809_const_off16 == 12
am6809_const_off16_ind == 13
am6809_acc_off == 14
am6809_acc_off_ind == 15
am6809_post_inc1 == 16
am6809_post_inc2 == 17
am6809_post_inc2_ind == 18
am6809_pre_dec1 == 19
am6809_pre_dec2 == 20
am6809_pre_dec2_ind == 21
am6809_pcrel8 == 22
am6809_pcrel8_ind == 23
am6809_pcrel16 == 24
am6809_pcrel16_ind == 25
am6809_extended_ind == 26
am6809_exg_tfr == 27
am6809_psh_pul == 28
am6809_last == 28
am6502_implied == 29
am6502_u8 == 30
am6502_u16 == 31
am6502_rel8 == 32
am6800_inherent == 33
am6800_rel == 34
am6800_indexed == 35
am6800_imm8 == 36
am6800_imm16 == 37
am6800_direct == 38
am6800_extended == 39
amz80_implied == 40
amz80_u8 == 41
amz80_u16 == 42
amz80_disp8 == 43
amz80_pcrel8 == 44

am6809_indirect_p(am) ==
  \/ am = am6809_zero_off_ind \/ am = am6809_const_off8_ind
  \/ am = am6809_const_off16_ind \/ am = am6809_acc_off_ind
  \/ am = am6809_post_inc2_ind \/ am = am6809_pre_dec2_ind
  \/ am = am6809_pcrel8_ind \/ am = am6809_pcrel16_ind
  \/ am = am6809_extended_ind

----------------------------------------------------------------------------
(* C arithmetic and the printf conversions the formatters use *)

\* a & b on non-negative integers
RECURSIVE BitAnd(_, _)
BitAnd(a, b) ==
  IF a = 0 \/ b = 0 THEN 0
  ELSE (a % 2) * (b % 2) + 2 * BitAnd(a \div 2, b \div 2)

\* a >> n on non-negative integers
Shr(a, n) == a \div (2 ^ n)

\* (int8_t)b for a byte b
S8(b) == IF b >= 128 THEN b - 256 ELSE b

\* (int16_t)v for v in 0..65535
S16(v) == IF v >= 32768 THEN v - 65536 ELSE v

\* element i of a C array held as a tuple or of a C string held as a string
At(tbl, i) == tbl[i + 1]
CharAt(s, i) == SubSeq(s, i + 1, i + 1)

\* uint32_t a + d (mod 2^32), a given as <<hi, lo>>, d a signed int
AddU32(a, d) ==
  LET t == a[2] + d
      lo == t % 65536
      carry == (t - lo) \div 65536
  IN <<(a[1] + carry) % 65536, lo>>

HexDigit(n) == CharAt("0123456789ABCDEF", n)

\* "%0<width>X" of a non-negative int
RECURSIVE HexMin(_, _)
HexMin(v, width) ==
  IF v < 16 /\ width <= 1 THEN HexDigit(v)
  ELSE HexMin(v \div 16, width - 1) \o HexDigit(v % 16)

\* "%04X" of an int passed where printf reads an unsigned int (32 bits):
\* a negative value prints as its 8-digit two's complement
Hex04Int(v) == IF v < 0 THEN "FFFF" \o HexMin(v + 65536, 4) ELSE HexMin(v, 4)

\* "%04lX" of a uint32_t <<hi, lo>>
Hex04U32(a) == IF a[1] = 0 THEN HexMin(a[2], 4) ELSE HexMin(a[1], 1) \o HexMin(a[2], 4)

RECURSIVE DecU(_)
DecU(n) == IF n < 10 THEN HexDigit(n) ELSE DecU(n \div 10) \o HexDigit(n % 10)

\* "%d"
Dec(n) == IF n < 0 THEN "-" \o DecU(0 - n) ELSE DecU(n)

\* "%-<width>d"
RECURSIVE PadRight(_, _)
PadRight(s, width) == IF Len(s) >= width THEN s ELSE PadRight(s \o " ", width)
DecLeft(n, width) == PadRight(Dec(n), width)

\* strstr(s, pat): offset of the first occurrence of pat in s, -1 for NULL
RECURSIVE StrStrFrom(_, _, _)
StrStrFrom(s, pat, i) ==
  IF i + Len(pat) > Len(s) THEN -1
  ELSE IF SubSeq(s, i + 1, i + Len(pat)) = pat THEN i
  ELSE StrStrFrom(s, pat, i + 1)
StrStr(s, pat) == StrStrFrom(s, pat, 0)

\* memcpy(s + off, src, n) into the text s, with off + n <= strlen(s)
MemCpy(s, off, src, n) ==
  SubSeq(s, 1, off) \o SubSeq(src, 1, n) \o SubSeq(s, off + n + 1, Len(s))

read_u16le(buf, i) == buf[i] + 256 * buf[i + 1]
read_s16le(buf, i) == S16(read_u16le(buf, i))
read_u16be(buf, i) == 256 * buf[i] + buf[i + 1]
read_s16be(buf, i) == S16(read_u16be(buf, i))

----------------------------------------------------------------------------
(* Opcode tables *)

\* opcodes_65c02 (insn_6502.c:49-82), indexed from 0 through At()
opcodes_65c02 ==
  <<
    "BRK", "ORA ($nn,X)", "?", "?", "TSB $nn", "ORA $nn", "ASL $nn", "RMB0 $nn",
    "PHP", "ORA #$nn", "ASLA", "?", "TSB $nnnn", "ORA $nnnn", "ASL $nnnn", "BBR0 $nn",
    "BPL rrrr", "ORA ($nn),Y", "ORA ($nn)", "?", "TRB $nn", "ORA $nn,X", "ASL $nn,X", "RMB1 $nn",
    "CLC", "ORA $nnnn,Y", "INCA", "?", "TRB $nnnn", "ORA $nnnn,X", "ASL $nnnn,X", "BBR1 $nn",
    "JSR $nnnn", "AND ($nn,X)", "?", "?", "BIT $nn", "AND $nn", "ROL $nn", "RMB2 $nn",
    "PLP", "AND #$nn", "ROLA", "?", "BIT $nnnn", "AND $nnnn", "ROL $nnnn", "BBR2 $nn",
    "BMI rrrr", "AND ($nn),Y", "AND ($nn)", "?", "BIT $nn,X", "AND $nn,X", "ROL $nn,X", "RMB3 $nn",
    "SEC", "AND $nnnn,Y", "DECA", "?", "BIT $nn,X", "AND $nnnn,X", "ROL $nnnn,X", "BBR3 $nn",
    "RTI", "EOR ($nn,X)", "?", "?", "?", "EOR $nn", "LSR $nn", "RMB4 $nn",
    "PHA", "EOR #$nn", "LSRA", "?", "JMP $nnnn", "EOR $nnnn", "LSR $nnnn", "BBR4 $nn",
    "BVC rrrr", "EOR ($nn),Y", "EOR ($nn)", "?", "?", "EOR $nn,X", "LSR $nn,X", "RMB5 $nn",
    "CLI", "EOR $nnnn,Y", "PHY", "?", "?", "EOR $nnnn,X", "LSR $nnnn,X", "BBR5 $nn",
    "RTS", "ADC ($nn,X)", "?", "?", "STZ $nn", "ADC $nn", "ROR $nn", "RMB6 $nn",
    "PLA", "ADC #$nn", "RORA", "?", "JMP ($nnnn)", "ADC $nnnn", "ROR $nnnn", "BBR6 $nn",
    "BVS rrrr", "ADC ($nn),Y", "ADC ($nn)", "?", "STZ $nn,X", "ADC $nn,X", "ROR $nn,X", "RMB7 $nn",
    "SEI", "ADC $nnnn,Y", "PLY", "?", "JMP ($nn,X)", "ADC $nnnn,X", "ROR $nnnn,X", "BBR7 $nn",
    "BRA rrrr", "STA ($nn,X)", "?", "?", "STY $nn", "STA $nn", "STX $nn", "SMB0 $nn",
    "DEY", "BIT #$nn", "TXA", "?", "STY $nnnn", "STA $nnnn", "STX $nnnn", "BBS0 $nn",
    "BCC rrrr", "STA ($nn),Y", "STA ($nn)", "?", "STY $nn,X", "STA $nn,X", "STX ($nn),Y", "SMB1 $nn",
    "TYA", "STA $nnnn,Y", "TXS", "?", "STZ $nn", "STA $nnnn,X", "STZ $nn,X", "BBS1 $nn",
    "LDY #$nn", "LDA ($nn,X)", "LDX #$nn", "?", "LDY $nn", "LDA $nnnn", "LDX $nn", "SMB2 $nn",
    "TAY", "LDA #$nn", "TAX", "?", "LDY $nnnn", "LDA $nnnn", "LDX $nnnn", "BBS2 $nn",
    "BCS rrrr", "LDA ($nn),Y", "LDA ($nn)", "?", "LDY $nn,X", "LDA $nn,X", "LDX ($nn),Y", "SMB3 $nn",
    "CLV", "LDA $nnnn,Y", "TSX", "?", "LDY $nnnn,X", "LDA $nnnn,X", "LDX $nnnn,Y", "BBS3 $nn",
    "CPY #$nn", "CMP ($nn,X)", "?", "?", "CPY $nnnn", "CMP $nnnn", "DEC $nnnn", "SMB4 $nn",
    "INY", "CMP #$nn", "DEX", "WAI", "CPY $nn", "CMP $nn", "DEC $nn", "BBS4 $nn",
    "BNE rrrr", "CMP ($nn),Y", "CMP ($nn)", "?", "?", "CMP $nn,X", "DEC $nn,X", "SMB5 $nn",
    "CLD", "CMP $nnnn,Y", "PHX", "STP", "?", "CMP $nnnn,X", "DEC $nnnn,X", "BBS5 $nn",
    "CPX #$nn", "SBC ($nn,X)", "?", "?", "CPX $nn", "SBC $nn", "INC $nn", "SMB6 $nn",
    "INX", "SBC #$nn", "NOP", "?", "CPX $nnnn", "SBC $nnnn", "INC $nnnn", "BBS6 $nn",
    "BEQ rrrr", "SBC ($nn),Y", "SBC ($nn)", "?", "?", "SBC $nn,X", "INC $nn,X", "SMB7 $nn",
    "SED", "SBC $nnnn,Y", "PLX", "?", "?", "SBC $nnnn,X", "INC $nnnn,X", "BBS7 $nn"
  >>

\* opcodes_6502 (insn_6502.c:84-117), indexed from 0 through At()
opcodes_6502 ==
  <<
    "BRK", "ORA ($nn,X)", "?", "?", "?", "ORA $nn", "ASL $nn", "?",
    "PHP", "ORA #$nn", "ASLA", "?", "?", "ORA $nnnn", "ASL $nnnn", "?",
    "BPL rrrr", "ORA ($nn),Y", "?", "?", "?", "ORA $nn,X", "ASL $nn,X", "?",
    "CLC", "ORA $nnnn,Y", "?", "?", "?", "ORA $nnnn,X", "ASL $nnnn,X", "?",
    "JSR $nnnn", "AND ($nn,X)", "?", "?", "BIT $nn", "AND $nn", "ROL $nn", "?",
    "PLP", "AND #$nn", "ROLA", "?", "BIT $nnnn", "AND $nnnn", "ROL $nnnn", "?",
    "BMI rrrr", "AND ($nn),Y", "?", "?", "?", "AND $nn,X", "ROL $nn,X", "?",
    "SEC", "AND $nnnn,Y", "?", "?", "?", "AND $nnnn,X", "ROL $nnnn,X", "?",
    "RTI", "EOR ($nn,X)", "?", "?", "?", "EOR nn", "LSR $nn", "?",
    "PHA", "EOR #$nn", "LSRA", "?", "JMP $nnnn", "EOR $nnnn", "LSR $nnnn", "?",
    "BVC rrrr", "EOR ($nn),Y", "?", "?", "?", "EOR $nn,X", "LSR $nn,X", "?",
    "CLI", "EOR $nnnn,Y", "?", "?", "?", "EOR $nnnn,X", "LSR $nnnn,X", "?",
    "RTS", "ADC ($nn,X)", "?", "?", "?", "ADC $nn", "ROR $nn", "?",
    "PLA", "ADC #$nn", "RORA", "?", "JMP ($nnnn)", "ADC $nnnn", "ROR $nnnn", "?",
    "BVS rrrr", "ADC ($nn),Y", "?", "?", "?", "ADC $nn,X", "ROR $nn,X", "?",
    "SEI", "ADC $nnnn,Y", "?", "?", "?", "ADC $nnnn,X", "ROR $nnnn,X", "?",
    "?", "STA ($nn,X)", "?", "?", "STY $nn", "STA $nn", "STX $nn", "?",
    "DEY", "?", "TXA", "?", "STY $nnnn", "STA $nnnn", "STX $nnnn", "?",
    "BCC rrrr", "STA ($nn),Y", "?", "?", "STY $nn,X", "STA $nn,X", "STX $nn,Y", "?",
    "TYA", "STA $nnnn,Y", "TXS", "?", "?", "STA $nnnn,X", "?", "?",
    "LDY #$nn", "LDA ($nn,X)", "LDX #$nn", "?", "LDY $nn", "LDA $nn", "LDX $nn", "?",
    "TAY", "LDA #$nn", "TAX", "?", "LDY $nnnn", "LDA $nnnn", "LDX $nnnn", "?",
    "BCS rrrr", "LDA ($nn),Y", "?", "?", "LDY $nn,X", "LDA $nn,X", "LDX $nn,Y", "?",
    "CLV", "LDA $nnnn,Y", "TSX", "?", "LDY $nnnn,X", "LDA $nnnn,X", "LDX $nnnn,Y", "?",
    "CPY #$nn", "CMP ($nn,X)", "?", "?", "CPY $nn", "CMP $nn", "DEC $nn", "?",
    "INY", "CMP #$nn", "DEX", "?", "CPY $nnnn", "CMP $nnnn", "DEC $nnnn", "?",
    "BNE rrrr", "CMP ($nn),Y", "?", "?", "?", "CMP $nn,X", "DEC $nn,X", "?",
    "CLD", "CMP $nnnn,Y", "?", "?", "?", "CMP $nnnn,X", "DEC $nnnn,X", "?",
    "CPX #$nn", "SBC ($nn,X)", "?", "?", "CPX $nn", "SBC $nn", "INC $nn", "?",
    "INX", "SBC #$nn", "NOP", "?", "CPX $nnnn", "SBC $nnnn", "INC $nnnn", "?",
    "BEQ rrrr", "SBC ($nn),Y", "?", "?", "?", "SBC $nn,X", "INC $nn,X", "?",
    "SED", "SBC $nnnn,Y", "?", "?", "?", "SBC $nnnn,X", "INC $nnnn,X", "?"
  >>

\* opcodes_6800 (insn_6800.c:31-64), indexed from 0 through At()
opcodes_6800 ==
  <<
    "?", "NOP", "?", "?", "?", "?", "TAP", "TPA",
    "INX", "DEX", "CLV", "SEV", "CLC", "SEC", "CLI", "SEI",
    "SBA", "CBA", "?", "?", "?", "?", "TAB", "TBA",
    "?", "DAA", "?", "ABA", "?", "?", "?", "?",
    "BRA", "?", "BHI", "BLS", "BCC", "BCS", "BNE", "BEQ",
    "BVC", "BVS", "BPL", "BMI", "BGE", "BLT", "BGT", "BLE",
    "TSX", "INS", "PULA", "PULB", "DES", "TXS", "PSHA", "PSHB",
    "?", "RTS", "?", "RTI", "?", "?", "WAI", "SWI",
    "NEGA", "?", "?", "COMA", "LSRA", "?", "RORA", "ASRA",
    "ASLA", "ROLA", "DECA", "?", "INCA", "TSTA", "?", "CLRA",
    "NEGB", "?", "?", "COMB", "LSRB", "?", "RORB", "ASRB",
    "ASLB", "ROLB", "DECB", "?", "INCB", "TSTB", "?", "CLRB",
    "NEG", "?", "?", "COM", "LSR", "?", "ROR", "ASR",
    "ASL", "ROL", "DEC", "?", "INC", "TST", "JMP", "CLR",
    "NEG", "?", "?", "COM", "LSR", "?", "ROR", "ASR",
    "ASL", "ROL", "DEC", "?", "INC", "TST", "JMP", "CLR",
    "SUBA", "CMPA", "SBCA", "?", "ANDA", "BITA", "LDAA", "?",
    "EORA", "ADCA", "ORAA", "ADDA", "CPX", "BSR", "LDS", "?",
    "SUBA", "CMPA", "SBCA", "?", "ANDA", "BITA", "LDAA", "STAA",
    "EORA", "ADCA", "ORAA", "ADDA", "CPX", "?", "LDS", "STS",
    "SUBA", "CMPA", "SBCA", "?", "ANDA", "BITA", "LDAA", "STAA",
    "EORA", "ADCA", "ORAA", "ADDA", "CPX", "JSR", "LDS", "STS",
    "SUBA", "CMPA", "SBCA", "?", "ANDA", "BITA", "LDAA", "STAA",
    "EORA", "ADCA", "ORAA", "ADDA", "CPX", "JSR", "LDS", "STS",
    "SUBB", "CMPB", "SBCB", "?", "ANDB", "BITB", "LDAB", "?",
    "EORB", "ADCB", "ORAB", "ADDB", "?", "?", "LDX", "?",
    "SUBB", "CMPB", "SBCB", "?", "ANDB", "BITB", "LDAB", "STAB",
    "EORB", "ADCB", "ORAB", "ADDB", "?", "?", "LDX", "STX",
    "SUBB", "CMPB", "SBCB", "?", "ANDB", "BITB", "LDAB", "STAB",
    "EORB", "ADCB", "ORAB", "ADDB", "?", "?", "LDX", "STX",
    "SUBB", "CMPB", "SBCB", "?", "ANDB", "BITB", "LDAB", "STAB",
    "EORB", "ADCB", "ORAB", "ADDB", "?", "?", "LDX", "STX"
  >>

\* opcodes_6809 (insn_6809.c:66-99), indexed from 0 through At()
opcodes_6809 ==
  <<
    "NEG", "?", "?", "COM", "LSR", "?", "ROR", "ASR",
    "ASL", "ROL", "DEC", "?", "INC", "TST", "JMP", "CLR",
    "(pg2)", "(pg3)", "NOP", "SYNC", "?", "?", "LBRA", "LBSR",
    "?", "DAA", "ORCC", "?", "ANDCC", "SEX", "EXG", "TFR",
    "BRA", "BRN", "BHI", "BLS", "BCC", "BCS", "BNE", "BEQ",
    "BVC", "BVS", "BPL", "BMI", "BGE", "BLT", "BGT", "BLE",
    "LEAX", "LEAY", "LEAS", "LEAU", "PSHS", "PULS", "PSHU", "PULU",
    "?", "RTS", "ABX", "RTI", "CWAI", "MUL", "?", "SWI",
    "NEGA", "?", "?", "COMA", "LSRA", "?", "RORA", "ASRA",
    "ASLA", "ROLA", "DECA", "?", "INCA", "TSTA", "?", "CLRA",
    "NEGB", "?", "?", "COMB", "LSRB", "?", "RORB", "ASRB",
    "ASLB", "ROLB", "DECB", "?", "INCB", "TSTB", "?", "CLRB",
    "NEG", "?", "?", "COM", "LSR", "?", "ROR", "ASR",
    "ASL", "ROL", "DEC", "?", "INC", "TST", "JMP", "CLR",
    "NEG", "?", "?", "COM", "LSR", "?", "ROR", "ASR",
    "ASL", "ROL", "DEC", "?", "INC", "TST", "JMP", "CLR",
    "SUBA", "CMPA", "SBCA", "SUBD", "ANDA", "BITA", "LDA", "?",
    "EORA", "ADCA", "ORA", "ADDA", "CMPX", "BSR", "LDX", "?",
    "SUBA", "CMPA", "SBCA", "SUBD", "ANDA", "BITA", "LDA", "STA",
    "EORA", "ADCA", "ORA", "ADDA", "CMPX", "JSR", "LDX", "STX",
    "SUBA", "CMPA", "SBCA", "SUBD", "ANDA", "BITA", "LDA", "STA",
    "EORA", "ADCA", "ORA", "ADDA", "CMPX", "JSR", "LDX", "STX",
    "SUBA", "CMPA", "SBCA", "SUBD", "ANDA", "BITA", "LDA", "STA",
    "EORA", "ADCA", "ORA", "ADDA", "CMPX", "JSR", "LDX", "STX",
    "SUBB", "CMPB", "SBCB", "ADDD", "ANDB", "BITB", "LDB", "?",
    "EORB", "ADCB", "ORB", "ADDB", "LDD", "?", "LDU", "?",
    "SUBB", "CMPB", "SBCB", "ADDD", "ANDB", "BITB", "LDB", "STB",
    "EORB", "ADCB", "ORB", "ADDB", "LDD", "STD", "LDU", "STU",
    "SUBB", "CMPB", "SBCB", "ADDD", "ANDB", "BITB", "LDB", "STB",
    "EORB", "ADCB", "ORB", "ADDB", "LDD", "STD", "LDU", "STU",
    "SUBB", "CMPB", "SBCB", "ADDD", "ANDB", "BITB", "LDB", "STB",
    "EORB", "ADCB", "ORB", "ADDB", "LDD", "STD", "LDU", "STU"
  >>

\* opcodes_long_cond_branches_6809 (insn_6809.c:101-104), indexed from 0 through At()
opcodes_long_cond_branches_6809 ==
  <<
    "?", "LBRN", "LBHI", "LBLS", "LBCC", "LBCS", "LBNE", "LBEQ",
    "LBVC", "LBVS", "LBPL", "LBMI", "LBGE", "LBLT", "LBGT", "LBLE"
  >>

\* opcodes_z80 (insn_z80.c:31-64), indexed from 0 through At()
opcodes_z80 ==
  <<
    "NOP", "LD BC,XXXXh", "LD (BC),A", "INC BC", "INC B", "DEC B", "LD B,XXh", "RLCA",
    "EX AF,AF'", "ADD HL,BC", "LD A,(BC)", "DEC BC", "INC C", "DEC C", "LD C,XXh", "RRCA",
    "DJNZ rrrr", "LD DE,XXXXh", "LD (DE),A", "INC DE", "INC D", "DEC D", "LD D,XXh", "RLA",
    "JR rrrr", "ADD HL,DE", "LD A,(DE)", "DEC DE", "INC E", "DEC E", "LD E,XXh", "RRA",
    "JR NZ,rrrr", "LD HL,XXXXh", "LD (XXXXh),HL", "INC HL", "INC H", "DEC H", "LD H,XXh", "DAA",
    "JR Z,rrrr", "ADD HL,HL", "LD HL,(XXXXh)", "DEC HL", "INC L", "DEC L", "LD L,XXh", "CPL",
    "JR NC,rrrr", "LD SP,XXXXh", "LD (XXXXh),A", "INC SP", "INC (HL)", "DEC (HL)", "LD (HL),XXh", "SCF",
    "JR C,rrrr", "ADD HL,SP", "LD A,(XXXXh)", "DEC SP", "INC A", "DEC A", "LD A,XXh", "CCF",
    "LD B,B", "LD B,C", "LD B,D", "LD B,E", "LD B,H", "LD B,L", "LD B,(HL)", "LD B,A",
    "LD C,B", "LD C,C", "LD C,D", "LD C,E", "LD C,H", "LD C,L", "LD C,(HL)", "LD C,A",
    "LD D,B", "LD D,C", "LD D,D", "LD D,E", "LD D,H", "LD D,L", "LD D,(HL)", "LD D,A",
    "LD E,B", "LD E,C", "LD E,D", "LD E,E", "LD E,H", "LD E,L", "LD E,(HL)", "LD E,A",
    "LD H,B", "LD H,C", "LD H,D", "LD H,E", "LD H,H", "LD H,L", "LD H,(HL)", "LD H,A",
    "LD L,B", "LD L,C", "LD L,D", "LD L,E", "LD L,H", "LD L,L", "LD L,(HL)", "LD L,A",
    "LD (HL),B", "LD (HL),C", "LD (HL),D", "LD (HL),E", "LD (HL),H", "LD (HL),L", "HALT", "LD (HL),A",
    "LD A,B", "LD A,C", "LD A,D", "LD A,E", "LD A,H", "LD A,L", "LD A,(HL)", "LD A,A",
    "ADD B", "ADD C", "ADD D", "ADD E", "ADD H", "ADD L", "ADD (HL)", "ADD A",
    "ADC B", "ADC C", "ADC D", "ADC E", "ADC H", "ADC L", "ADC (HL)", "ADC A",
    "SUB B", "SUB C", "SUB D", "SUB E", "SUB H", "SUB L", "SUB (HL)", "SUB A",
    "SBC B", "SBC C", "SBC D", "SBC E", "SBC H", "SBC L", "SBC (HL)", "SBC A",
    "AND B", "AND C", "AND D", "AND E", "AND H", "AND L", "AND (HL)", "AND A",
    "XOR B", "XOR C", "XOR D", "XOR E", "XOR H", "XOR L", "XOR (HL)", "XOR A",
    "OR B", "OR C", "OR D", "OR E", "OR H", "OR L", "OR (HL)", "OR A",
    "CP B", "CP C", "CP D", "CP E", "CP H", "CP L", "CP (HL)", "CP A",
    "RET NZ", "POP BC", "JP NZ,XXXXh", "JP XXXXh", "CALL NZ,XXXXh", "PUSH BC", "ADD XXh", "RST 00h",
    "RET Z", "RET", "JP Z,XXXXh", "extCB", "CALL Z,XXXXh", "CALL XXXXh", "ADC XXh", "RST 08h",
    "RET NC", "POP DE", "JP NC,XXXXh", "OUT (XXh),A", "CALL NC,XXXXh", "PUSH DE", "SUB XXh", "RST 10h",
    "RET C", "EXX", "JP C,XXXXh", "IN A,(XXh)", "CALL C,XXXXh", "extDD", "SBC XXh", "RST 18h",
    "RET PO", "POP HL", "JP PO,XXXXh", "EX (SP),HL", "CALL PO,XXXXh", "PUSH HL", "AND XXh", "RST 20h",
    "RET PE", "JP (HL)", "JP PE,XXXXh", "EX DE,HL", "CALL PE,XXXXh", "extED", "XOR XXh", "RST 28h",
    "RET P", "POP AF", "JP P,XXXXh", "DI", "CALL P,XXXXh", "PUSH AF", "OR XXh", "RST 30h",
    "RET M", "LD SP,HL", "JP M,XXXXh", "EI", "CALL M,XXXXh", "extFD", "CP XXh", "RST 38h"
  >>

\* opcodes_CB (insn_z80.c:270-275), indexed from 0 through At()
opcodes_CB ==
  <<
    "RLC ", "RRC ", "RL ", "RR ", "SLA ", "SRA ", "? ", "SRL ",
    "BIT 0,", "BIT 1,", "BIT 2,", "BIT 3,", "BIT 4,", "BIT 5,", "BIT 6,", "BIT 7,",
    "RES 0,", "RES 1,", "RES 2,", "RES 3,", "RES 4,", "RES 5,", "RES 6,", "RES 7,",
    "SET 0,", "SET 1,", "SET 2,", "SET 3,", "SET 4,", "SET 5,", "SET 6,", "SET 7,"
  >>

----------------------------------------------------------------------------
(* insn_6502.c *)

opcodes_for_6502 == IF cpu = "cpu_65c02" THEN opcodes_65c02 ELSE opcodes_6502

\* variant: the branch target is counted from the address of the instruction
insn_decode_format_6502_target_from_insn(s) ==
  LET tmpl == At(opcodes_for_6502, s.bytes[0])
  IN CASE s.addrmode = am6502_u8 ->
            LET val == s.bytes[1]
                cp == StrStr(tmpl, "nn")
            IN IF cp # -1
               THEN [s EXCEPT !.insn_string = MemCpy(tmpl, cp, HexMin(val, 2), 2)]
               ELSE [s EXCEPT !.insn_string = tmpl]
       [] s.addrmode = am6502_u16 ->
            LET val == S16(read_u16le(s.bytes, 1))
                cp == StrStr(tmpl, "nnnn")
            IN IF cp # -1
               THEN [s EXCEPT !.insn_string = MemCpy(tmpl, cp, Hex04Int(val), 4)]
               ELSE [s EXCEPT !.insn_string = tmpl]
       [] s.addrmode = am6502_rel8 ->
            LET val == S8(s.bytes[1])
                cp == StrStr(tmpl, "rrrr")
            IN IF cp # -1
               THEN [s EXCEPT !.insn_string = MemCpy(tmpl, cp, DecLeft(val, 4), 4),
                              !.resolved_address = AddU32(s.insn_address, val),
                              !.resolved_address_valid = TRUE]
               ELSE [s EXCEPT !.insn_string = tmpl]
       [] OTHER -> [s EXCEPT !.insn_string = tmpl]

insn_decode_format_6502(s) ==
  LET tmpl == At(opcodes_for_6502, s.bytes[0])
  IN CASE s.addrmode = am6502_u8 ->
            LET val == s.bytes[1]
                cp == StrStr(tmpl, "nn")
            IN IF cp # -1
               THEN [s EXCEPT !.insn_string = MemCpy(tmpl, cp, HexMin(val, 2), 2)]
               ELSE [s EXCEPT !.insn_string = tmpl]
       [] s.addrmode = am6502_u16 ->
            \* val is an int16_t: an operand of 0x8000 or more is negative
            \* and "%04X" renders it with 8 digits into op[5] (undefined
            \* behaviour: either the call does not return, which leaves no
            \* state behind, or the first 4 digits are copied)
            LET val == S16(read_u16le(s.bytes, 1))
                cp == StrStr(tmpl, "nnnn")
            IN IF cp # -1
               THEN [s EXCEPT !.insn_string = MemCpy(tmpl, cp, Hex04Int(val), 4)]
               ELSE [s EXCEPT !.insn_string = tmpl]
       [] s.addrmode = am6502_rel8 ->
            LET val == S8(s.bytes[1])
                cp == StrStr(tmpl, "rrrr")
            IN IF cp # -1
               THEN [s EXCEPT !.insn_string = MemCpy(tmpl, cp, DecLeft(val, 4), 4),
                              !.resolved_address =
                                 AddU32(s.insn_address, s.bytes_required + val),
                              !.resolved_address_valid = TRUE]
               ELSE [s EXCEPT !.insn_string = tmpl]
       [] OTHER -> [s EXCEPT !.insn_string = tmpl]

\* variant: the marker nn is looked for before the marker nnnn
insn_decode_resolve_6502_nn_first(s) ==
  LET placeholder(cp1) ==
        IF StrStr(cp1, "nn") # -1
          THEN [s EXCEPT !.addrmode = am6502_u8, !.bytes_required = 2]
        ELSE IF StrStr(cp1, "nnnn") # -1
          THEN [s EXCEPT !.addrmode = am6502_u16, !.bytes_required = 3]
        ELSE IF StrStr(cp1, "rrrr") # -1
          THEN [s EXCEPT !.addrmode = am6502_rel8, !.bytes_required = 2]
        ELSE [s EXCEPT !.addrmode = am6502_implied, !.bytes_required = 1]
  IN placeholder(At(opcodes_for_6502, s.bytes[0]))

insn_decode_resolve_6502(s) ==
  LET placeholder(cp1) ==
        IF StrStr(cp1, "nnnn") # -1
          THEN [s EXCEPT !.addrmode = am6502_u16, !.bytes_required = 3]
        ELSE IF StrStr(cp1, "nn") # -1
          THEN [s EXCEPT !.addrmode = am6502_u8, !.bytes_required = 2]
        ELSE IF StrStr(cp1, "rrrr") # -1
          THEN [s EXCEPT !.addrmode = am6502_rel8, !.bytes_required = 2]
        ELSE [s EXCEPT !.addrmode = am6502_implied, !.bytes_required = 1]
  IN placeholder(At(opcodes_for_6502, s.bytes[0]))

insn_decode_next_state_6502(s) ==
  IF s.state # ds_fetching \/ s.bytes_fetched = 0 THEN s
  ELSE LET resolved(s1) ==
             IF s1.bytes_fetched = s1.bytes_required
             THEN [insn_decode_format_6502(s1) EXCEPT !.state = ds_complete]
             ELSE s1
       IN resolved(IF s.bytes_required = 0 THEN insn_decode_resolve_6502(s) ELSE s)

----------------------------------------------------------------------------
(* insn_6800.c *)

\* variant: no special case for LDS and LDX immediate
insn_decode_addrmode_6800_no_imm16(s) ==
  LET opc == s.bytes[0]
  IN IF s.bytes_fetched = 0 THEN am_invalid
     ELSE IF (opc >= \h00 /\ opc <= \h1F) \/ (opc >= \h30 /\ opc <= \h5F)
       THEN am6800_inherent
     ELSE IF opc >= \h20 /\ opc <= \h2F
       THEN am6800_rel
     ELSE IF (opc >= \h60 /\ opc <= \h6F) \/ (opc >= \hA0 /\ opc <= \hAF)
             \/ (opc >= \hE0 /\ opc <= \hEF)
       THEN am6800_indexed
     ELSE IF (opc >= \h70 /\ opc <= \h7F) \/ (opc >= \hB0 /\ opc <= \hBF)
             \/ (opc >= \hF0 /\ opc <= \hFF)
       THEN am6800_extended
     ELSE IF (opc >= \h80 /\ opc <= \h8F) \/ (opc >= \hC0 /\ opc <= \hCF)
       THEN IF opc = \h8D THEN am6800_rel
            ELSE am6800_imm8
     ELSE IF (opc >= \h90 /\ opc <= \h9F) \/ (opc >= \hD0 /\ opc <= \hDF)
       THEN am6800_direct
     ELSE am_invalid

insn_decode_addrmode_6800(s) ==
  LET opc == s.bytes[0]
  IN IF s.bytes_fetched = 0 THEN am_invalid
     ELSE IF (opc >= \h00 /\ opc <= \h1F) \/ (opc >= \h30 /\ opc <= \h5F)
       THEN am6800_inherent
     ELSE IF opc >= \h20 /\ opc <= \h2F
       THEN am6800_rel
     ELSE IF (opc >= \h60 /\ opc <= \h6F) \/ (opc >= \hA0 /\ opc <= \hAF)
             \/ (opc >= \hE0 /\ opc <= \hEF)
       THEN am6800_indexed
     ELSE IF (opc >= \h70 /\ opc <= \h7F) \/ (opc >= \hB0 /\ opc <= \hBF)
             \/ (opc >= \hF0 /\ opc <= \hFF)
       THEN am6800_extended
     ELSE IF (opc >= \h80 /\ opc <= \h8F) \/ (opc >= \hC0 /\ opc <= \hCF)
       THEN IF opc = \h8D THEN am6800_rel
            ELSE IF opc = \h8E \/ opc = \hCE THEN am6800_imm16
            ELSE am6800_imm8
     ELSE IF (opc >= \h90 /\ opc <= \h9F) \/ (opc >= \hD0 /\ opc <= \hDF)
       THEN am6800_direct
     ELSE am_invalid

\* variant: the 6800 branch target is counted from the address of the branch
insn_decode_format_6800_target_from_insn(s) ==
  LET opc == At(opcodes_6800, s.bytes[0])
  IN CASE s.addrmode = am6800_inherent ->
            [s EXCEPT !.insn_string = opc]
       [] s.addrmode = am6800_rel ->
            [s EXCEPT !.insn_string = opc \o " " \o Dec(S8(s.bytes[1])),
                      !.resolved_address = AddU32(s.insn_address, S8(s.bytes[1])),
                      !.resolved_address_valid = TRUE]
       [] s.addrmode = am6800_indexed ->
            [s EXCEPT !.insn_string = opc \o " " \o Dec(s.bytes[1]) \o ",X"]
       [] s.addrmode = am6800_extended ->
            [s EXCEPT !.insn_string = opc \o " $" \o HexMin(read_u16be(s.bytes, 1), 4)]
       [] s.addrmode = am6800_direct ->
            [s EXCEPT !.insn_string = opc \o " $" \o HexMin(s.bytes[1], 2)]
       [] s.addrmode = am6800_imm8 ->
            [s EXCEPT !.insn_string = opc \o " #$" \o HexMin(s.bytes[1], 2)]
       [] s.addrmode = am6800_imm16 ->
            [s EXCEPT !.insn_string = opc \o " #$" \o HexMin(read_u16be(s.bytes, 1), 4)]
       [] OTHER ->
            [s EXCEPT !.insn_string = "<?ADDRMODE?>"]

insn_decode_format_6800(s) ==
  LET opc == At(opcodes_6800, s.bytes[0])
  IN CASE s.addrmode = am6800_inherent ->
            [s EXCEPT !.insn_string = opc]
       [] s.addrmode = am6800_rel ->
            [s EXCEPT !.insn_string = opc \o " " \o Dec(S8(s.bytes[1])),
                      !.resolved_address = AddU32(s.insn_address, 2 + S8(s.bytes[1])),
                      !.resolved_address_valid = TRUE]
       [] s.addrmode = am6800_indexed ->
            [s EXCEPT !.insn_string = opc \o " " \o Dec(s.bytes[1]) \o ",X"]
       [] s.addrmode = am6800_extended ->
            [s EXCEPT !.insn_string = opc \o " $" \o HexMin(read_u16be(s.bytes, 1), 4)]
       [] s.addrmode = am6800_direct ->
            [s EXCEPT !.insn_string = opc \o " $" \o HexMin(s.bytes[1], 2)]
       [] s.addrmode = am6800_imm8 ->
            [s EXCEPT !.insn_string = opc \o " #$" \o HexMin(s.bytes[1], 2)]
       [] s.addrmode = am6800_imm16 ->
            [s EXCEPT !.insn_string = opc \o " #$" \o HexMin(read_u16be(s.bytes, 1), 4)]
       [] OTHER ->
            [s EXCEPT !.insn_string = "<?ADDRMODE?>"]

insn_decode_resolve_6800(s) ==
  LET required(am) ==
        CASE am = am6800_inherent ->
               [s EXCEPT !.addrmode = am, !.bytes_required = 1]
          [] am \in {am6800_rel, am6800_indexed, am6800_imm8, am6800_direct} ->
               [s EXCEPT !.addrmode = am, !.bytes_required = 2]
          [] am \in {am6800_extended, am6800_imm16} ->
               [s EXCEPT !.addrmode = am, !.bytes_required = 3]
          [] OTHER -> [s EXCEPT !.addrmode = am]
  IN required(insn_decode_addrmode_6800(s))

insn_decode_next_state_6800(s) ==
  IF s.state # ds_fetching \/ s.bytes_fetched = 0 THEN s
  ELSE LET resolved(s1) ==
             IF s1.bytes_fetched = s1.bytes_required
             THEN [insn_decode_format_6800(s1) EXCEPT !.state = ds_complete]
             ELSE s1
       IN resolved(IF s.bytes_required = 0 THEN insn_decode_resolve_6800(s) ELSE s)

----------------------------------------------------------------------------
(* insn_6809.c *)

\* insn_postbytes_6809[], indexed by am - am6809_first
insn_postbytes_6809 ==
  << 0, 1, 2, 1, 2, 1, 2,
     1, 1, 1, 2, 2, 3, 3, 1, 1, 1, 1, 1, 1, 1, 1, 2, 2, 3, 3, 3,
     1, 1 >>

\* variant: extended indirect only for the postbyte 10011111
insn_decode_addrmode_indexed_6809_exact(pb) ==
  IF pb = \b10011111 THEN am6809_extended_ind
  ELSE IF BitAnd(pb, \b10000000) = 0 THEN am6809_const_off5
  ELSE
    LET sel == BitAnd(pb, \b10001111)
        am == CASE sel = \b10000100 -> am6809_zero_off
                [] sel = \b10001000 -> am6809_const_off8
                [] sel = \b10001001 -> am6809_const_off16
                [] sel \in {\b10000110, \b10000101, \b10001011} -> am6809_acc_off
                [] sel = \b10000000 -> am6809_post_inc1
                [] sel = \b10000001 -> am6809_post_inc2
                [] sel = \b10000010 -> am6809_pre_dec1
                [] sel = \b10000011 -> am6809_pre_dec2
                [] sel = \b10001100 -> am6809_pcrel8
                [] sel = \b10001101 -> am6809_pcrel16
                [] OTHER -> am_invalid
    IN IF am = am_invalid THEN am_invalid
       ELSE IF BitAnd(pb, \b00010000) # 0
         THEN IF am = am6809_post_inc1 \/ am = am6809_pre_dec1 THEN am_invalid
              ELSE am + 1
       ELSE am

\* variant: the indirect flag is accepted for every mode of the table
insn_decode_addrmode_indexed_6809_any_indirect(pb) ==
  IF BitAnd(pb, \b10011111) = \b10011111 THEN am6809_extended_ind
  ELSE IF BitAnd(pb, \b10000000) = 0 THEN am6809_const_off5
  ELSE
    LET sel == BitAnd(pb, \b10001111)
        am == CASE sel = \b10000100 -> am6809_zero_off
                [] sel = \b10001000 -> am6809_const_off8
                [] sel = \b10001001 -> am6809_const_off16
                [] sel \in {\b10000110, \b10000101, \b10001011} -> am6809_acc_off
                [] sel = \b10000000 -> am6809_post_inc1
                [] sel = \b10000001 -> am6809_post_inc2
                [] sel = \b10000010 -> am6809_pre_dec1
                [] sel = \b10000011 -> am6809_pre_dec2
                [] sel = \b10001100 -> am6809_pcrel8
                [] sel = \b10001101 -> am6809_pcrel16
                [] OTHER -> am_invalid
    IN IF am = am_invalid THEN am_invalid
       ELSE IF BitAnd(pb, \b00010000) # 0 THEN am + 1
       ELSE am

insn_decode_addrmode_indexed_6809(pb) ==
  IF BitAnd(pb, \b10011111) = \b10011111 THEN am6809_extended_ind
  ELSE IF BitAnd(pb, \b10000000) = 0 THEN am6809_const_off5
  ELSE
    LET sel == BitAnd(pb, \b10001111)
        am == CASE sel = \b10000100 -> am6809_zero_off
                [] sel = \b10001000 -> am6809_const_off8
                [] sel = \b10001001 -> am6809_const_off16
                [] sel \in {\b10000110, \b10000101, \b10001011} -> am6809_acc_off
                [] sel = \b10000000 -> am6809_post_inc1
                [] sel = \b10000001 -> am6809_post_inc2
                [] sel = \b10000010 -> am6809_pre_dec1
                [] sel = \b10000011 -> am6809_pre_dec2
                [] sel = \b10001100 -> am6809_pcrel8
                [] sel = \b10001101 -> am6809_pcrel16
                [] OTHER -> am_invalid
    IN IF am = am_invalid THEN am_invalid
       ELSE IF BitAnd(pb, \b00010000) # 0
         THEN IF am = am6809_post_inc1 \/ am = am6809_pre_dec1 THEN am_invalid
              ELSE am + 1
       ELSE am

insn_decode_addrmode_6809(s) ==
  LET opc == s.bytes[0]
      indexed_need2 ==
        IF s.bytes_fetched < 2 THEN am_invalid
        ELSE insn_decode_addrmode_indexed_6809(s.bytes[1])
  IN IF s.bytes_fetched = 0 THEN am_invalid
     ELSE IF opc = \h10 \/ opc = \h11 THEN
       IF s.bytes_fetched < 2 THEN am_invalid
       ELSE
         LET extopc == opc * 256 + s.bytes[1]
             page == BitAnd(extopc, \hFFF0)
         IN CASE page = \h1020 -> am6809_rel16
              [] page \in {\h1030, \h1130} -> am6809_inherent
              [] page \in {\h1080, \h1180, \h10C0} -> am6809_imm16
              [] page \in {\h1090, \h1190, \h10D0} -> am6809_direct
              [] page \in {\h10A0, \h11A0, \h10E0} ->
                   IF s.bytes_fetched < 3 THEN am_invalid
                   ELSE insn_decode_addrmode_indexed_6809(s.bytes[2])
              [] page \in {\h10B0, \h11B0, \h10F0} -> am6809_extended
              [] OTHER -> am_invalid
     ELSE IF (opc >= \h00 /\ opc <= \h0F) \/ (opc >= \h90 /\ opc <= \h9F)
             \/ (opc >= \hD0 /\ opc <= \hDF)
       THEN am6809_direct
     ELSE IF opc >= \h10 /\ opc <= \h1F THEN
       CASE opc \in {\h12, \h13, \h19, \h1D} -> am6809_inherent
         [] opc \in {\h16, \h17} -> am6809_rel16
         [] opc \in {\h1A, \h1C} -> am6809_imm8
         [] opc \in {\h1E, \h1F} -> am6809_exg_tfr
         [] OTHER -> am_invalid
     ELSE IF opc >= \h20 /\ opc <= \h2F THEN am6809_rel8
     ELSE IF opc >= \h30 /\ opc <= \h3F THEN
       IF opc >= \h30 /\ opc <= \h33 THEN indexed_need2
       ELSE IF opc >= \h34 /\ opc <= \h37 THEN am6809_psh_pul
       ELSE IF opc >= \h39 /\ opc <= \h3F THEN am6809_inherent
       ELSE am_invalid
     ELSE IF (opc >= \h40 /\ opc <= \h4F) \/ (opc >= \h50 /\ opc <= \h5F)
       THEN am6809_inherent
     ELSE IF (opc >= \h60 /\ opc <= \h6F) \/ (opc >= \hA0 /\ opc <= \hAF)
             \/ (opc >= \hE0 /\ opc <= \hEF)
       THEN indexed_need2
     ELSE IF (opc >= \h70 /\ opc <= \h7F) \/ (opc >= \hB0 /\ opc <= \hBF)
             \/ (opc >= \hF0 /\ opc <= \hFF)
       THEN am6809_extended
     ELSE IF (opc >= \h80 /\ opc <= \h8F) \/ (opc >= \hC0 /\ opc <= \hCF) THEN
       IF opc = \h8D THEN am6809_rel8
       ELSE IF BitAnd(opc, \h0F) \in {\h03, \h0C, \h0E} THEN am6809_imm16
       ELSE am6809_imm8
     ELSE am_invalid

insn_decode_format_exg_tfr_regname_6809(v) ==
  CASE v = \b0000 -> "D"
    [] v = \b0001 -> "X"
    [] v = \b0010 -> "Y"
    [] v = \b0011 -> "U"
    [] v = \b0100 -> "S"
    [] v = \b0101 -> "PC"
    [] v = \b1000 -> "A"
    [] v = \b1001 -> "B"
    [] v = \b1010 -> "CCR"
    [] v = \b1011 -> "DPR"
    [] OTHER -> "?"

index_regnames == <<"X", "Y", "U", "S">>

\* variant: the registers of bits 1 and 2 change places
psh_pul_regnames_b_before_a == <<"CCR", "B", "A", "DPR", "X", "Y", "", "PC">>

\* psh_pul_regnames[]: the register of bit j; "" stands for the NULL entry
psh_pul_regnames == <<"CCR", "A", "B", "DPR", "X", "Y", "", "PC">>

\* the mnemonic a page 2 / page 3 opcode selects
opcode_ext_6809(extopc) ==
  LET extopc_u3 == BitAnd(extopc, \hFFF0)
      extopc_b1 == BitAnd(extopc, \h000F)
  IN IF extopc >= \h1020 /\ extopc <= \h102F
       THEN At(opcodes_long_cond_branches_6809, BitAnd(extopc, \h0F))
     ELSE IF extopc = \h103F THEN "SWI2"
     ELSE IF extopc = \h113F THEN "SWI3"
     ELSE IF extopc_u3 \in {\h1080, \h1090, \h10A0, \h10B0} THEN
       IF extopc = \h108F THEN "?"
       ELSE IF extopc_b1 = \h3 THEN "CMPD"
       ELSE IF extopc_b1 = \hC THEN "CMPY"
       ELSE IF extopc_b1 = \hE THEN "LDY"
       ELSE IF extopc_b1 = \hF THEN "STY"
       ELSE "?"
     ELSE IF extopc_u3 \in {\h10C0, \h10D0, \h10E0, \h10F0} THEN
       IF extopc = \h10CF THEN "?"
       ELSE IF extopc_b1 = \hE THEN "LDS"
       ELSE IF extopc_b1 = \hF THEN "STS"
       ELSE "?"
     ELSE IF extopc_u3 \in {\h1180, \h1190, \h11A0, \h11B0} THEN
       IF extopc_b1 = \h3 THEN "CMPU"
       ELSE IF extopc_b1 = \hC THEN "CMPS"
       ELSE "?"
     ELSE "?"

\* the register list of PSHS/PULS/PSHU/PULU, from bit j upward
RECURSIVE psh_pul_list(_, _, _)
psh_pul_list(opc0, pb, j) ==
  IF j > 7 THEN ""
  ELSE
    LET bit == 2 ^ j
        cp2 == IF At(psh_pul_regnames, j) = ""
               THEN (IF opc0 = \h34 \/ opc0 = \h35 THEN "U" ELSE "S")
               ELSE At(psh_pul_regnames, j)
        cp1 == IF BitAnd(pb, bit - 1) # 0 THEN "," ELSE ""
    IN (IF BitAnd(pb, bit) # 0 THEN cp1 \o cp2 ELSE "") \o psh_pul_list(opc0, pb, j + 1)

\* variant: the target is counted from the end of the instruction
insn_decode_format_6809_target_after_insn(s) ==
  LET prefixed == s.bytes[0] = \h10 \/ s.bytes[0] = \h11
      i == IF prefixed THEN 2 ELSE 1
      opc == IF prefixed THEN opcode_ext_6809(s.bytes[0] * 256 + s.bytes[1])
             ELSE At(opcodes_6809, s.bytes[0])
      am == s.addrmode
      index_reg == BitAnd(Shr(s.bytes[i], 5), 3)
      reg1 == Shr(s.bytes[i], 4)
      reg2 == BitAnd(s.bytes[i], \h0F)
      ind_open == IF am6809_indirect_p(am) THEN "[" ELSE ""
      ind_close == IF am6809_indirect_p(am) THEN "]" ELSE ""
      xreg == At(index_regnames, index_reg)
      \* the signed operand of the relative and offset modes
      s16 == CASE am = am6809_rel8 -> S8(s.bytes[i])
               [] am = am6809_rel16 -> read_s16be(s.bytes, i)
               \* (s16 << 11) >> 11 is evaluated in int and assigned back
               [] am = am6809_const_off5 ->
                    S16(Shr(BitAnd(s.bytes[i], \h1F) * (2 ^ 11), 11))
               [] am \in {am6809_const_off8, am6809_const_off8_ind} ->
                    S8(s.bytes[i + 1])
               [] am \in {am6809_const_off16, am6809_const_off16_ind} ->
                    read_s16be(s.bytes, i + i)
               [] am \in {am6809_pcrel8, am6809_pcrel8_ind} -> S8(s.bytes[i + i])
               [] am \in {am6809_pcrel16, am6809_pcrel16_ind} ->
                    read_s16be(s.bytes, i + 1)
               [] OTHER -> 0
      acc == LET r == BitAnd(s.bytes[i], \b1111)
             IN CASE r = \b0110 -> "A"
                  [] r = \b0101 -> "B"
                  [] r = \b1011 -> "D"
                  [] OTHER -> "?"
      text ==
        CASE am = am6809_inherent -> opc
          [] am = am6809_direct -> opc \o " < $" \o HexMin(s.bytes[i], 2)
          [] am = am6809_extended_ind ->
               opc \o " " \o ind_open \o "$" \o HexMin(read_u16be(s.bytes, i + 1), 4)
                   \o ind_close
          [] am = am6809_extended ->
               opc \o " " \o ind_open \o "$" \o HexMin(read_u16be(s.bytes, i), 4)
                   \o ind_close
          [] am \in {am6809_rel8, am6809_rel16} -> opc \o " " \o Dec(s16)
          [] am = am6809_imm8 -> opc \o " #$" \o HexMin(s.bytes[i], 2)
          [] am = am6809_imm16 -> opc \o " #$" \o HexMin(read_u16be(s.bytes, i), 4)
          [] am \in {am6809_zero_off, am6809_zero_off_ind} ->
               opc \o " " \o ind_open \o "," \o xreg \o ind_close
          [] am \in {am6809_const_off5, am6809_const_off8, am6809_const_off8_ind,
                     am6809_const_off16, am6809_const_off16_ind} ->
               opc \o " " \o ind_open \o Dec(s16) \o "," \o xreg \o ind_close
          [] am \in {am6809_acc_off, am6809_acc_off_ind} ->
               opc \o " " \o ind_open \o acc \o "," \o xreg \o ind_close
          [] am = am6809_post_inc1 -> opc \o " ," \o xreg \o "+"
          [] am \in {am6809_post_inc2, am6809_post_inc2_ind} ->
               opc \o " " \o ind_open \o "," \o xreg \o "++" \o ind_close
          [] am = am6809_pre_dec1 -> opc \o " ,-" \o xreg
          [] am \in {am6809_pre_dec2, am6809_pre_dec2_ind} ->
               opc \o " " \o ind_open \o ",--" \o xreg \o ind_close
          [] am \in {am6809_pcrel8, am6809_pcrel8_ind,
                     am6809_pcrel16, am6809_pcrel16_ind} ->
               opc \o " " \o ind_open \o Dec(s16) \o ",PCR" \o ind_close
          [] am = am6809_exg_tfr ->
               opc \o " " \o insn_decode_format_exg_tfr_regname_6809(reg1) \o ","
                   \o insn_decode_format_exg_tfr_regname_6809(reg2)
          [] am = am6809_psh_pul ->
               opc \o " " \o psh_pul_list(s.bytes[0], s.bytes[i], 0)
          [] OTHER -> "<?ADDRMODE?>"
  IN IF am < am6809_first \/ am > am6809_last
       THEN [s EXCEPT !.insn_string = "<?ADDRMODE?>"]
     ELSE IF am \in {am6809_rel8, am6809_rel16, am6809_pcrel8, am6809_pcrel8_ind,
                     am6809_pcrel16, am6809_pcrel16_ind}
       THEN [s EXCEPT !.insn_string = text,
                      !.resolved_address = AddU32(s.insn_address, s16 + s.bytes_required),
                      !.resolved_address_valid = TRUE]
     ELSE [s EXCEPT !.insn_string = text]

\* variant: bit 6 of the push/pull postbyte names the stack pointer of the opcode
insn_decode_format_6809_own_stack_pointer(s) ==
  LET prefixed == s.bytes[0] = \h10 \/ s.bytes[0] = \h11
      i == IF prefixed THEN 2 ELSE 1
      opc == IF prefixed THEN opcode_ext_6809(s.bytes[0] * 256 + s.bytes[1])
             ELSE At(opcodes_6809, s.bytes[0])
      am == s.addrmode
      index_reg == BitAnd(Shr(s.bytes[i], 5), 3)
      reg1 == Shr(s.bytes[i], 4)
      reg2 == BitAnd(s.bytes[i], \h0F)
      ind_open == IF am6809_indirect_p(am) THEN "[" ELSE ""
      ind_close == IF am6809_indirect_p(am) THEN "]" ELSE ""
      xreg == At(index_regnames, index_reg)
      \* the signed operand of the relative and offset modes
      s16 == CASE am = am6809_rel8 -> S8(s.bytes[i])
               [] am = am6809_rel16 -> read_s16be(s.bytes, i)
               \* (s16 << 11) >> 11 is evaluated in int and assigned back
               [] am = am6809_const_off5 ->
                    S16(Shr(BitAnd(s.bytes[i], \h1F) * (2 ^ 11), 11))
               [] am \in {am6809_const_off8, am6809_const_off8_ind} ->
                    S8(s.bytes[i + 1])
               [] am \in {am6809_const_off16, am6809_const_off16_ind} ->
                    read_s16be(s.bytes, i + i)
               [] am \in {am6809_pcrel8, am6809_pcrel8_ind} -> S8(s.bytes[i + i])
               [] am \in {am6809_pcrel16, am6809_pcrel16_ind} ->
                    read_s16be(s.bytes, i + 1)
               [] OTHER -> 0
      acc == LET r == BitAnd(s.bytes[i], \b1111)
             IN CASE r = \b0110 -> "A"
                  [] r = \b0101 -> "B"
                  [] r = \b1011 -> "D"
                  [] OTHER -> "?"
      text ==
        CASE am = am6809_inherent -> opc
          [] am = am6809_direct -> opc \o " < $" \o HexMin(s.bytes[i], 2)
          [] am = am6809_extended_ind ->
               opc \o " " \o ind_open \o "$" \o HexMin(read_u16be(s.bytes, i + 1), 4)
                   \o ind_close
          [] am = am6809_extended ->
               opc \o " " \o ind_open \o "$" \o HexMin(read_u16be(s.bytes, i), 4)
                   \o ind_close
          [] am \in {am6809_rel8, am6809_rel16} -> opc \o " " \o Dec(s16)
          [] am = am6809_imm8 -> opc \o " #$" \o HexMin(s.bytes[i], 2)
          [] am = am6809_imm16 -> opc \o " #$" \o HexMin(read_u16be(s.bytes, i), 4)
          [] am \in {am6809_zero_off, am6809_zero_off_ind} ->
               opc \o " " \o ind_open \o "," \o xreg \o ind_close
          [] am \in {am6809_const_off5, am6809_const_off8, am6809_const_off8_ind,
                     am6809_const_off16, am6809_const_off16_ind} ->
               opc \o " " \o ind_open \o Dec(s16) \o "," \o xreg \o ind_close
          [] am \in {am6809_acc_off, am6809_acc_off_ind} ->
               opc \o " " \o ind_open \o acc \o "," \o xreg \o ind_close
          [] am = am6809_post_inc1 -> opc \o " ," \o xreg \o "+"
          [] am \in {am6809_post_inc2, am6809_post_inc2_ind} ->
               opc \o " " \o ind_open \o "," \o xreg \o "++" \o ind_close
          [] am = am6809_pre_dec1 -> opc \o " ,-" \o xreg
          [] am \in {am6809_pre_dec2, am6809_pre_dec2_ind} ->
               opc \o " " \o ind_open \o ",--" \o xreg \o ind_close
          [] am \in {am6809_pcrel8, am6809_pcrel8_ind,
                     am6809_pcrel16, am6809_pcrel16_ind} ->
               opc \o " " \o ind_open \o Dec(s16) \o ",PCR" \o ind_close
          [] am = am6809_exg_tfr ->
               opc \o " " \o insn_decode_format_exg_tfr_regname_6809(reg1) \o ","
                   \o insn_decode_format_exg_tfr_regname_6809(reg2)
          [] am = am6809_psh_pul ->
               opc \o " " \o psh_pul_list(IF s.bytes[0] \in {\h34, \h35} THEN \h36 ELSE \h34,
                                       s.bytes[i], 0)
          [] OTHER -> "<?ADDRMODE?>"
  IN IF am < am6809_first \/ am > am6809_last
       THEN [s EXCEPT !.insn_string = "<?ADDRMODE?>"]
     ELSE IF am \in {am6809_rel8, am6809_rel16, am6809_pcrel8, am6809_pcrel8_ind,
                     am6809_pcrel16, am6809_pcrel16_ind}
       THEN [s EXCEPT !.insn_string = text,
                      !.resolved_address = AddU32(s.insn_address, s16),
                      !.resolved_address_valid = TRUE]
     ELSE [s EXCEPT !.insn_string = text]

insn_decode_format_6809(s) ==
  LET prefixed == s.bytes[0] = \h10 \/ s.bytes[0] = \h11
      i == IF prefixed THEN 2 ELSE 1
      opc == IF prefixed THEN opcode_ext_6809(s.bytes[0] * 256 + s.bytes[1])
             ELSE At(opcodes_6809, s.bytes[0])
      am == s.addrmode
      index_reg == BitAnd(Shr(s.bytes[i], 5), 3)
      reg1 == Shr(s.bytes[i], 4)
      reg2 == BitAnd(s.bytes[i], \h0F)
      ind_open == IF am6809_indirect_p(am) THEN "[" ELSE ""
      ind_close == IF am6809_indirect_p(am) THEN "]" ELSE ""
      xreg == At(index_regnames, index_reg)
      \* the signed operand of the relative and offset modes
      s16 == CASE am = am6809_rel8 -> S8(s.bytes[i])
               [] am = am6809_rel16 -> read_s16be(s.bytes, i)
               \* (s16 << 11) >> 11 is evaluated in int and assigned back
               [] am = am6809_const_off5 ->
                    S16(Shr(BitAnd(s.bytes[i], \h1F) * (2 ^ 11), 11))
               [] am \in {am6809_const_off8, am6809_const_off8_ind} ->
                    S8(s.bytes[i + 1])
               [] am \in {am6809_const_off16, am6809_const_off16_ind} ->
                    read_s16be(s.bytes, i + i)
               [] am \in {am6809_pcrel8, am6809_pcrel8_ind} -> S8(s.bytes[i + i])
               [] am \in {am6809_pcrel16, am6809_pcrel16_ind} ->
                    read_s16be(s.bytes, i + 1)
               [] OTHER -> 0
      acc == LET r == BitAnd(s.bytes[i], \b1111)
             IN CASE r = \b0110 -> "A"
                  [] r = \b0101 -> "B"
                  [] r = \b1011 -> "D"
                  [] OTHER -> "?"
      text ==
        CASE am = am6809_inherent -> opc
          [] am = am6809_direct -> opc \o " < $" \o HexMin(s.bytes[i], 2)
          [] am = am6809_extended_ind ->
               opc \o " " \o ind_open \o "$" \o HexMin(read_u16be(s.bytes, i + 1), 4)
                   \o ind_close
          [] am = am6809_extended ->
               opc \o " " \o ind_open \o "$" \o HexMin(read_u16be(s.bytes, i), 4)
                   \o ind_close
          [] am \in {am6809_rel8, am6809_rel16} -> opc \o " " \o Dec(s16)
          [] am = am6809_imm8 -> opc \o " #$" \o HexMin(s.bytes[i], 2)
          [] am = am6809_imm16 -> opc \o " #$" \o HexMin(read_u16be(s.bytes, i), 4)
          [] am \in {am6809_zero_off, am6809_zero_off_ind} ->
               opc \o " " \o ind_open \o "," \o xreg \o ind_close
          [] am \in {am6809_const_off5, am6809_const_off8, am6809_const_off8_ind,
                     am6809_const_off16, am6809_const_off16_ind} ->
               opc \o " " \o ind_open \o Dec(s16) \o "," \o xreg \o ind_close
          [] am \in {am6809_acc_off, am6809_acc_off_ind} ->
               opc \o " " \o ind_open \o acc \o "," \o xreg \o ind_close
          [] am = am6809_post_inc1 -> opc \o " ," \o xreg \o "+"
          [] am \in {am6809_post_inc2, am6809_post_inc2_ind} ->
               opc \o " " \o ind_open \o "," \o xreg \o "++" \o ind_close
          [] am = am6809_pre_dec1 -> opc \o " ,-" \o xreg
          [] am \in {am6809_pre_dec2, am6809_pre_dec2_ind} ->
               opc \o " " \o ind_open \o ",--" \o xreg \o ind_close
          [] am \in {am6809_pcrel8, am6809_pcrel8_ind,
                     am6809_pcrel16, am6809_pcrel16_ind} ->
               opc \o " " \o ind_open \o Dec(s16) \o ",PCR" \o ind_close
          [] am = am6809_exg_tfr ->
               opc \o " " \o insn_decode_format_exg_tfr_regname_6809(reg1) \o ","
                   \o insn_decode_format_exg_tfr_regname_6809(reg2)
          [] am = am6809_psh_pul ->
               opc \o " " \o psh_pul_list(s.bytes[0], s.bytes[i], 0)
          [] OTHER -> "<?ADDRMODE?>"
  IN IF am < am6809_first \/ am > am6809_last
       THEN [s EXCEPT !.insn_string = "<?ADDRMODE?>"]
     ELSE IF am \in {am6809_rel8, am6809_rel16, am6809_pcrel8, am6809_pcrel8_ind,
                     am6809_pcrel16, am6809_pcrel16_ind}
       THEN [s EXCEPT !.insn_string = text,
                      !.resolved_address = AddU32(s.insn_address, s16),
                      !.resolved_address_valid = TRUE]
     ELSE [s EXCEPT !.insn_string = text]

\* variant: the page prefix is not counted in the instruction length
insn_decode_resolve_6809_prefix_uncounted(s) ==
  LET required(am) ==
        IF am >= am6809_first /\ am <= am6809_last
        THEN [s EXCEPT !.addrmode = am,
                       !.bytes_required =
                          1 + At(insn_postbytes_6809, am - am6809_first)]
        ELSE [s EXCEPT !.addrmode = am]
  IN required(insn_decode_addrmode_6809(s))

insn_decode_resolve_6809(s) ==
  LET required(am) ==
        IF am >= am6809_first /\ am <= am6809_last
        THEN [s EXCEPT !.addrmode = am,
                       !.bytes_required =
                          1 + At(insn_postbytes_6809, am - am6809_first)
                            + (IF s.bytes[0] = \h10 \/ s.bytes[0] = \h11
                               THEN 1 ELSE 0)]
        ELSE [s EXCEPT !.addrmode = am]
  IN required(insn_decode_addrmode_6809(s))

insn_decode_next_state_6809(s) ==
  IF s.state # ds_fetching \/ s.bytes_fetched = 0 THEN s
  ELSE IF s.bytes_required = 0 /\ s.bytes_fetched = 1
          /\ (s.bytes[0] = \h10 \/ s.bytes[0] = \h11) THEN s
  ELSE LET resolved(s1) ==
             IF s1.bytes_fetched = s1.bytes_required
             THEN [insn_decode_format_6809(s1) EXCEPT !.state = ds_complete]
             ELSE s1
       IN resolved(IF s.bytes_required = 0 THEN insn_decode_resolve_6809(s) ELSE s)

----------------------------------------------------------------------------
(* insn_z80.c *)

\* z80_operand_types[]: placeholder text and the mode it stands for
z80_operand_types ==
  << [opr_string |-> "XXXXh", opr_mode |-> amz80_u16],
     [opr_string |-> "XXh",   opr_mode |-> amz80_u8],
     [opr_string |-> "+ddd",  opr_mode |-> amz80_disp8],
     [opr_string |-> "rrrr",  opr_mode |-> amz80_pcrel8] >>

\* variant: a 16-bit operand counted as one byte
z80_operand_size_u16_as_one(mode) ==
  CASE mode \in {amz80_u8, amz80_disp8, amz80_pcrel8, amz80_u16} -> 1
    [] OTHER -> 0

z80_operand_size(mode) ==
  CASE mode \in {amz80_u8, amz80_disp8, amz80_pcrel8} -> 1
    [] mode = amz80_u16 -> 2
    [] OTHER -> 0

\* the first operand type whose text starts at offset cp of str, 0 for none
RECURSIVE z80_operand_at(_, _, _)
z80_operand_at(str, cp, i) ==
  IF i > Len(z80_operand_types) THEN 0
  ELSE LET opr == z80_operand_types[i].opr_string
       IN IF cp + Len(opr) <= Len(str) /\ SubSeq(str, cp + 1, cp + Len(opr)) = opr
          THEN i
          ELSE z80_operand_at(str, cp, i + 1)

\* z80_next_operand(): [cp, mode, cursor] of the next placeholder at or after
\* cursor; cp = -1 stands for the NULL result
RECURSIVE z80_next_operand(_, _)
z80_next_operand(str, cursor) ==
  IF cursor >= Len(str) THEN [cp |-> -1, mode |-> am_invalid, cursor |-> cursor]
  ELSE LET i == z80_operand_at(str, cursor, 1)
       IN IF i # 0
          THEN [cp |-> cursor, mode |-> z80_operand_types[i].opr_mode,
                cursor |-> cursor + Len(z80_operand_types[i].opr_string)]
          ELSE z80_next_operand(str, cursor + 1)

\* offset of the first "HL" in tmpl, -1 if there is none
z80_find_hl(tmpl) == StrStr(tmpl, "HL")

\* variant: JP (HL) takes a displacement like every other memory reference
z80_hl_to_index_no_exception(tmpl, opc, which) ==
  LET p == z80_find_hl(tmpl)
      need_disp == p > 0 /\ CharAt(tmpl, p - 1) = "("
  IN IF p = -1 THEN tmpl
     ELSE SubSeq(tmpl, 1, p) \o "I" \o (IF which = \hDD THEN "X" ELSE "Y")
            \o (IF need_disp THEN "+ddd" ELSE "")
            \o SubSeq(tmpl, p + 3, Len(tmpl))

\* z80_hl_to_index(): the text left in insn_string
z80_hl_to_index(tmpl, opc, which) ==
  LET p == z80_find_hl(tmpl)
      need_disp == p > 0 /\ CharAt(tmpl, p - 1) = "(" /\ opc # \hE9
  IN IF p = -1 THEN tmpl
     ELSE SubSeq(tmpl, 1, p) \o "I" \o (IF which = \hDD THEN "X" ELSE "Y")
            \o (IF need_disp THEN "+ddd" ELSE "")
            \o SubSeq(tmpl, p + 3, Len(tmpl))

ld_regs == <<"B", "C", "D", "E", "H", "L", "(HL)", "A">>
io_regs == <<"B", "C", "D", "E", "H", "L", "?", "A">>
ld_regs16 == <<"BC", "DE", "HL", "SP">>

\* the named instructions of the ED group
z80_ed_named(opc) ==
  CASE opc = \h57 -> "LD A,I"  [] opc = \h5F -> "LD A,R"
    [] opc = \h47 -> "LD I,A"  [] opc = \h4F -> "LD R,A"
    [] opc = \hA0 -> "LDI"     [] opc = \hB0 -> "LDIR"
    [] opc = \hA8 -> "LDD"     [] opc = \hB8 -> "LDDR"
    [] opc = \hA1 -> "CPI"     [] opc = \hB1 -> "CPIR"
    [] opc = \hA9 -> "CPD"     [] opc = \hB9 -> "CPDR"
    [] opc = \h44 -> "NEG"     [] opc = \h46 -> "IM 0"
    [] opc = \h56 -> "IM 1"    [] opc = \h5E -> "IM 2"
    [] opc = \h6F -> "RLD"     [] opc = \h67 -> "RRD"
    [] opc = \h4D -> "RETI"    [] opc = \h45 -> "RETN"
    [] opc = \hA2 -> "INI"     [] opc = \hB2 -> "INIR"
    [] opc = \hAA -> "IND"     [] opc = \hBA -> "INDR"
    [] opc = \hA3 -> "OUTI"    [] opc = \hB3 -> "OUTIR"
    [] opc = \hAB -> "OUTD"    [] opc = \hBB -> "OTDR"
    [] OTHER -> "?"

\* z80_insn_template(): [ok, str]; ok is the result, str the text left in
\* insn_string (unchanged when the template is not known yet)
z80_insn_template(s) ==
  LET opc0 == s.bytes[0]
      no == [ok |-> FALSE, str |-> s.insn_string]
      yes(t) == [ok |-> TRUE, str |-> t]
  IN IF (opc0 = \hDD \/ opc0 = \hFD) /\ s.bytes_fetched >= 2 /\ s.bytes[1] # \hCB
     THEN
       LET opc == s.bytes[1]
           tmpl == IF BitAnd(opc, \b11001111) = \b00001001
                   THEN "ADD I" \o (IF opc0 = \hDD THEN "X" ELSE "Y") \o ","
                          \o At(ld_regs16, BitAnd(Shr(opc, 4), 3))
                   ELSE At(opcodes_z80, opc)
       IN yes(z80_hl_to_index(tmpl, opc, opc0))
     ELSE IF opc0 = \hED THEN
       IF s.bytes_fetched < 2 THEN no
       ELSE
         LET opc == s.bytes[1]
             reg16 == BitAnd(Shr(opc, 4), 3)
             ioreg == BitAnd(Shr(opc, 3), 7)
         IN IF BitAnd(opc, \b11001111) = \b01001011
              THEN yes("LD " \o At(ld_regs16, reg16) \o ",(XXXXh)")
            ELSE IF BitAnd(opc, \b11001111) = \b01000011
              THEN yes("LD (XXXXh)," \o At(ld_regs16, reg16))
            ELSE IF BitAnd(opc, \b11001111) = \b01001010
              THEN yes("ADC HL," \o At(ld_regs16, reg16))
            ELSE IF BitAnd(opc, \b11001111) = \b01000010
              THEN yes("SBC HL," \o At(ld_regs16, reg16))
            ELSE IF BitAnd(opc, \b11000111) = \b01000000
              THEN yes("IN " \o (IF ioreg = 6 THEN "Flags" ELSE At(io_regs, ioreg))
                         \o ",(C)")
            ELSE IF BitAnd(opc, \b11000111) = \b01000001
              THEN yes("OUT (C)," \o At(io_regs, ioreg))
            ELSE yes(z80_ed_named(opc))
     ELSE IF opc0 = \hCB
             \/ ((opc0 = \hDD \/ opc0 = \hFD) /\ s.bytes_fetched >= 2
                 /\ s.bytes[1] = \hCB) THEN
       IF opc0 = \hCB /\ s.bytes_fetched < 2 THEN no
       ELSE IF opc0 # \hCB /\ s.bytes_fetched < 4 THEN no
       ELSE
         LET opc == IF opc0 = \hCB THEN s.bytes[1] ELSE s.bytes[3]
             tbuf == At(opcodes_CB, BitAnd(Shr(opc, 3), \h1F))
                       \o At(ld_regs, BitAnd(opc, 7))
         IN IF opc0 = \hDD \/ opc0 = \hFD
            THEN yes(z80_hl_to_index(tbuf, opc, opc0))
            ELSE yes(tbuf)
     ELSE IF opc0 = \hCB \/ opc0 = \hDD \/ opc0 = \hED \/ opc0 = \hFD THEN no
     ELSE yes(At(opcodes_z80, opc0))

\* variant: the padding of the displacement field is left in the text
z80_collapse_none(str, cp) == str

\* the whitespace collapse after a displacement was written at offset cp
z80_collapse(str, cp) ==
  LET sp == StrStrFrom(str, " ", cp)
      RECURSIVE skip(_)
      skip(n) == IF n < Len(str) /\ CharAt(str, n) = " " THEN skip(n + 1) ELSE n
  IN IF sp = -1 THEN str
     ELSE SubSeq(str, 1, sp) \o SubSeq(str, skip(sp) + 1, Len(str))

\* the operand loop of insn_decode_format_z80(), from cursor curs on
RECURSIVE z80_format_operands(_, _, _)
z80_format_operands(s, curs, opr_byte) ==
  LET nxt == z80_next_operand(s.insn_string, curs)
      cp == nxt.cp
      str == s.insn_string
      s8rel == S8((S8(s.bytes[opr_byte]) + 2) % 256)
      s8 == S8(s.bytes[opr_byte])
      s1 ==
        CASE nxt.mode = amz80_u16 ->
               [s EXCEPT !.insn_string =
                  MemCpy(str, cp, HexMin(read_u16le(s.bytes, opr_byte), 4), 4)]
          [] nxt.mode = amz80_u8 ->
               [s EXCEPT !.insn_string =
                  MemCpy(str, cp, HexMin(s.bytes[opr_byte], 2), 2)]
          [] nxt.mode = amz80_pcrel8 ->
               [s EXCEPT !.insn_string = MemCpy(str, cp, DecLeft(s8rel, 4), 4),
                         !.resolved_address = AddU32(s.insn_address, s8rel),
                         !.resolved_address_valid = TRUE]
          [] nxt.mode = amz80_disp8 ->
               [s EXCEPT !.insn_string =
                  z80_collapse(
                    IF s8 < 0 THEN MemCpy(str, cp, DecLeft(s8, 4), 4)
                    ELSE MemCpy(str, cp + 1, DecLeft(s8, 3), 3),
                    cp)]
          [] OTHER -> s
  IN IF cp = -1 THEN s
     ELSE z80_format_operands(s1, nxt.cursor, opr_byte + z80_operand_size(nxt.mode))

insn_decode_format_z80(s) ==
  LET opr_byte == IF s.bytes[0] = \hCB \/ s.bytes[0] = \hED THEN 2
                  ELSE IF s.bytes[0] = \hDD \/ s.bytes[0] = \hFD THEN 2
                  ELSE 1
  IN z80_format_operands(s, 0, opr_byte)

\* the sum of the operand sizes of the placeholders of str, from curs on
RECURSIVE z80_operand_bytes(_, _)
z80_operand_bytes(str, curs) ==
  LET nxt == z80_next_operand(str, curs)
  IN IF nxt.cp = -1 THEN 0
     ELSE z80_operand_size(nxt.mode) + z80_operand_bytes(str, nxt.cursor)

insn_decode_resolve_z80(s) ==
  LET opcode_bytes ==
        IF s.bytes[0] = \hCB \/ s.bytes[0] = \hED THEN 2
        ELSE IF s.bytes[0] = \hDD \/ s.bytes[0] = \hFD
          THEN (IF s.bytes_fetched >= 2 /\ s.bytes[1] = \hCB THEN 3 ELSE 2)
        ELSE 1
      template(t) ==
        IF ~t.ok THEN s
        ELSE [s EXCEPT !.insn_string = t.str,
                       !.bytes_required = opcode_bytes + z80_operand_bytes(t.str, 0)]
  IN template(z80_insn_template(s))

insn_decode_next_state_z80(s) ==
  IF s.state # ds_fetching \/ s.bytes_fetched = 0 THEN s
  ELSE IF s.bytes_required = 0 /\ ~z80_insn_template(s).ok THEN s
  ELSE LET resolved(s1) ==
             IF s1.bytes_fetched = s1.bytes_required
             THEN [insn_decode_format_z80(s1) EXCEPT !.state = ds_complete]
             ELSE s1
       IN resolved(IF s.bytes_required = 0 THEN insn_decode_resolve_z80(s) ELSE s)

----------------------------------------------------------------------------
(* insn_decode.c *)

\* the decode routine insn_decode_init() stores for the configured cpu
next_state_for(c) ==
  CASE c \in {"cpu_6502", "cpu_65c02"} -> "insn_decode_next_state_6502"
    [] c = "cpu_6800" -> "insn_decode_next_state_6800"
    [] c \in {"cpu_6809", "cpu_6809e"} -> "insn_decode_next_state_6809"
    [] c = "cpu_z80" -> "insn_decode_next_state_z80"
    [] OTHER -> "NULL"

\* (*id->next_state)(id)
call_next_state(s) ==
  CASE s.next_state = "insn_decode_next_state_6502" -> insn_decode_next_state_6502(s)
    [] s.next_state = "insn_decode_next_state_6800" -> insn_decode_next_state_6800(s)
    [] s.next_state = "insn_decode_next_state_6809" -> insn_decode_next_state_6809(s)
    [] s.next_state = "insn_decode_next_state_z80" -> insn_decode_next_state_z80(s)
    [] OTHER -> s

\* insn_decode_next_state(): [id, ret], the session afterwards and the result
\* variant: the result tells whether the session left Fetching
insn_decode_next_state_ret_transition(s) ==
  LET after(ostate, s1) ==
        IF ostate = ds_fetching
        THEN [id |-> IF s1.state = ds_complete /\ s1.resolved_address_valid
                     THEN [s1 EXCEPT !.insn_string =
                             @ \o " <" \o Hex04U32(s1.resolved_address) \o ">"]
                     ELSE s1,
              ret |-> s1.state # ds_fetching]
        ELSE [id |-> s1, ret |-> FALSE]
  IN IF s.next_state # "NULL"
     THEN after(s.state, call_next_state(s))
     ELSE [id |-> s, ret |-> FALSE]

\* variant: the annotation is appended whether or not a target was resolved
insn_decode_next_state_always_annotated(s) ==
  LET after(ostate, s1) ==
        IF ostate = ds_fetching
        THEN [id |-> IF s1.state = ds_complete
                     THEN [s1 EXCEPT !.insn_string =
                             @ \o " <" \o Hex04U32(s1.resolved_address) \o ">"]
                     ELSE s1,
              ret |-> TRUE]
        ELSE [id |-> s1, ret |-> FALSE]
  IN IF s.next_state # "NULL"
     THEN after(s.state, call_next_state(s))
     ELSE [id |-> s, ret |-> FALSE]

insn_decode_next_state(s) ==
  LET after(ostate, s1) ==
        IF ostate = ds_fetching
        THEN [id |-> IF s1.state = ds_complete /\ s1.resolved_address_valid
                     THEN [s1 EXCEPT !.insn_string =
                             @ \o " <" \o Hex04U32(s1.resolved_address) \o ">"]
                     ELSE s1,
              ret |-> TRUE]
        ELSE [id |-> s1, ret |-> FALSE]
  IN IF s.next_state # "NULL"
     THEN after(s.state, call_next_state(s))
     ELSE [id |-> s, ret |-> FALSE]

\* variant: begin() without the test of the session state
insn_decode_begin_unguarded(s, addr, b) ==
  IF s.next_state # "NULL"
  THEN insn_decode_next_state(
         [s EXCEPT !.state = ds_fetching,
                   !.insn_address = addr,
                   !.resolved_address = <<0, 0>>,
                   !.resolved_address_valid = FALSE,
                   !.addrmode = am_invalid,
                   !.bytes_required = 0,
                   !.bytes_fetched = 1,
                   !.bytes = [@ EXCEPT ![0] = b]]).id
  ELSE s

insn_decode_begin(s, addr, b) ==
  IF s.next_state # "NULL" /\ (s.state = ds_idle \/ s.state = ds_complete)
  THEN insn_decode_next_state(
         [s EXCEPT !.state = ds_fetching,
                   !.insn_address = addr,
                   !.resolved_address = <<0, 0>>,
                   !.resolved_address_valid = FALSE,
                   !.addrmode = am_invalid,
                   !.bytes_required = 0,
                   !.bytes_fetched = 1,
                   !.bytes = [@ EXCEPT ![0] = b]]).id
  ELSE s

\* variant: the overflow test is off by one
insn_decode_continue_off_by_one(s, b) ==
  IF s.state = ds_fetching
  THEN IF s.bytes_fetched = INSN_DECODE_MAXBYTES + 1
       THEN [id |-> [s EXCEPT !.insn_string = "<decode overflow>",
                              !.state = ds_complete],
             ret |-> FALSE]
       ELSE insn_decode_next_state(
              [s EXCEPT !.bytes = [@ EXCEPT ![s.bytes_fetched] = b],
                        !.bytes_fetched = @ + 1])
  ELSE [id |-> s, ret |-> FALSE]

\* variant: the overflow sets the text but leaves the session Fetching
insn_decode_continue_no_force(s, b) ==
  IF s.state = ds_fetching
  THEN IF s.bytes_fetched = INSN_DECODE_MAXBYTES
       THEN [id |-> [s EXCEPT !.insn_string = "<decode overflow>"],
             ret |-> FALSE]
       ELSE insn_decode_next_state(
              [s EXCEPT !.bytes = [@ EXCEPT ![s.bytes_fetched] = b],
                        !.bytes_fetched = @ + 1])
  ELSE [id |-> s, ret |-> FALSE]

\* variant: the overflow also clears the byte count of the instruction
insn_decode_continue_reset_required(s, b) ==
  IF s.state = ds_fetching
  THEN IF s.bytes_fetched = INSN_DECODE_MAXBYTES
       THEN [id |-> [s EXCEPT !.insn_string = "<decode overflow>",
                              !.bytes_required = 0,
                              !.state = ds_complete],
             ret |-> FALSE]
       ELSE insn_decode_next_state(
              [s EXCEPT !.bytes = [@ EXCEPT ![s.bytes_fetched] = b],
                        !.bytes_fetched = @ + 1])
  ELSE [id |-> s, ret |-> FALSE]

\* variant: continue() without the test of the session state
insn_decode_continue_unguarded(s, b) ==
  IF s.bytes_fetched = INSN_DECODE_MAXBYTES
  THEN [id |-> [s EXCEPT !.insn_string = "<decode overflow>",
                         !.state = ds_complete],
        ret |-> FALSE]
  ELSE insn_decode_next_state(
         [s EXCEPT !.bytes = [@ EXCEPT ![s.bytes_fetched] = b],
                   !.bytes_fetched = @ + 1])

\* variant: the overflow completes the session without writing the text
insn_decode_continue_silent_overflow(s, b) ==
  IF s.state = ds_fetching
  THEN IF s.bytes_fetched = INSN_DECODE_MAXBYTES
       THEN [id |-> [s EXCEPT !.state = ds_complete], ret |-> FALSE]
       ELSE insn_decode_next_state(
              [s EXCEPT !.bytes = [@ EXCEPT ![s.bytes_fetched] = b],
                        !.bytes_fetched = @ + 1])
  ELSE [id |-> s, ret |-> FALSE]

\* insn_decode_continue(): [id, ret]
insn_decode_continue(s, b) ==
  IF s.state = ds_fetching
  THEN IF s.bytes_fetched = INSN_DECODE_MAXBYTES
       THEN [id |-> [s EXCEPT !.insn_string = "<decode overflow>",
                              !.state = ds_complete],
             ret |-> FALSE]
       ELSE insn_decode_next_state(
              [s EXCEPT !.bytes = [@ EXCEPT ![s.bytes_fetched] = b],
                        !.bytes_fetched = @ + 1])
  ELSE [id |-> s, ret |-> FALSE]

\* variant: reading the result returns the session to Idle
insn_decode_complete_consuming(s) ==
  [id |-> IF s.state = ds_complete THEN [s EXCEPT !.state = ds_idle] ELSE s,
   ret |-> IF s.state = ds_complete THEN s.insn_string ELSE ""]

\* variant: the text is returned whatever the session state
insn_decode_complete_unchecked(s) ==
  [id |-> s, ret |-> s.insn_string]

\* insn_decode_complete(): [id, ret]
insn_decode_complete(s) ==
  [id |-> s, ret |-> IF s.state = ds_complete THEN s.insn_string ELSE ""]

----------------------------------------------------------------------------
(* The caller: the inputs it supplies and the calls it makes *)

\* complete() results the model remembers per completed instruction
MaxReads == 2

\* instruction addresses passed to begin()
AddrSet == {<<0, \h1003>>, <<0, \h1006>>, <<\hFFFF, \hFFF0>>}

\* what the storage of a session holds before its first instruction
GarbageBytes == {\h00, \hFF}
GarbageStrings == {"", "?"}

\* first bytes passed to begin()
FirstBytes(c) ==
  CASE c \in {"cpu_6502", "cpu_65c02"} -> {\h00, \hAC, \h10}
    [] c = "cpu_6800" -> {\h01, \h20, \hCE}
    [] c \in {"cpu_6809", "cpu_6809e"} -> {\h12, \h20, \h10, \h14, \hA0}
    [] c = "cpu_z80" -> {\h00, \h18, \hDD, \hCB, \h36}
    [] OTHER -> {\h00}

\* bytes passed to continue() as byte number n (counted from 0) of a stream
ContBytes(c, n) ==
  CASE c \in {"cpu_6502", "cpu_65c02", "cpu_6800"} ->
         (IF n = 1 THEN {\h10, \hFD} ELSE IF n = 2 THEN {\h30} ELSE {\h00})
    [] c \in {"cpu_6809", "cpu_6809e"} ->
         (IF n = 1 THEN {\hFD, \hAE}
          ELSE IF n = 2 THEN {\hA9, \h01}
          ELSE IF n = 3 THEN {\h01}
          ELSE IF n = 4 THEN {\h80}
          ELSE {\h00})
    [] c = "cpu_z80" ->
         (IF n = 1 THEN {\h7E, \hCB}
          ELSE IF n = 2 THEN {\h05, \hFB}
          ELSE IF n = 3 THEN {\h06, \h00}
          ELSE {\h00})
    [] OTHER -> {\h00}

\* the session after insn_decode_init()
InitSession(c, g, gs) ==
  [ state |-> ds_idle,
    insn_address |-> <<0, 0>>,
    resolved_address |-> <<0, 0>>,
    resolved_address_valid |-> FALSE,
    next_state |-> next_state_for(c),
    bytes_required |-> 0,
    bytes_fetched |-> 0,
    addrmode |-> am_invalid,
    bytes |-> [i \in 0..(INSN_DECODE_MAXBYTES - 1) |-> g],
    insn_string |-> gs ]

Init ==
  /\ cpu \in CpuTypes
  /\ \E g \in GarbageBytes, gs \in GarbageStrings : id = InitSession(cpu, g, gs)
  /\ id2 = InitSession(cpu, \h00, "")
  /\ callee = "id"
  /\ op = "init"
  /\ ret_continue = FALSE
  /\ ret_complete = ""
  /\ feeds = 0
  /\ seen = <<>>

\* bytes a reader of insn_string may run into past the end of the buffer
StrayTails == {"", "?"}

\* the texts a reader may find in insn_string after sprintf() stored text there:
\* a text of INSN_DECODE_MAXSTRING characters or more leaves its terminating
\* NUL outside the buffer (undefined behaviour), the NUL may survive there or
\* not, and without it the reader runs on into what follows the buffer
StoredText(text) ==
  IF Len(text) < INSN_DECODE_MAXSTRING THEN {text}
  ELSE {text \o t : t \in StrayTails}

\* the sessions a call may leave behind, given the session old before the call
\* and the session new its code computes
Stored(old, new) ==
  IF new.insn_string = old.insn_string THEN {new}
  ELSE {[new EXCEPT !.insn_string = t] : t \in StoredText(new.insn_string)}

\* whether a begin() made now starts a new instruction
BeginAccepted == id.next_state # "NULL" /\ id.state # ds_fetching

\* the caller calls insn_decode_begin(&id, addr, b)
Begin(addr, b) ==
  /\ id' \in Stored(id, insn_decode_begin(id, addr, b))
  /\ op' = "begin"
  /\ feeds' = IF BeginAccepted THEN 0 ELSE feeds
  /\ seen' = IF BeginAccepted THEN <<>> ELSE seen
  /\ ret_continue' = FALSE
  /\ ret_complete' = ""
  /\ callee' = "id"
  /\ UNCHANGED <<cpu, id2>>

\* the caller calls insn_decode_continue(&id, b) and keeps the result
Continue(b) ==
  /\ LET returned(r) == id' \in Stored(id, r.id) /\ ret_continue' = r.ret
     IN returned(insn_decode_continue(id, b))
  /\ op' = "continue"
  /\ feeds' = IF id.state = ds_fetching THEN feeds + 1 ELSE feeds
  /\ ret_complete' = ""
  /\ callee' = "id"
  /\ UNCHANGED <<cpu, seen, id2>>

\* the caller calls insn_decode_complete(&id) and keeps the result
Complete ==
  /\ LET returned(r) ==
           /\ id' = r.id
           /\ ret_complete' = r.ret
           /\ seen' = IF id.state = ds_complete /\ Len(seen) < MaxReads
                      THEN Append(seen, r.ret) ELSE seen
     IN returned(insn_decode_complete(id))
  /\ op' = "complete"
  /\ ret_continue' = FALSE
  /\ callee' = "id"
  /\ UNCHANGED <<cpu, feeds, id2>>

BeginCall == \E addr \in AddrSet, b \in FirstBytes(cpu) : Begin(addr, b)
ContinueCall == \E b \in ContBytes(cpu, id.bytes_fetched) : Continue(b)

Next == BeginCall \/ ContinueCall \/ Complete

Spec == Init /\ [][Next]_vars

TypeOK ==
  /\ cpu \in CpuTypes
  /\ id.state \in {ds_idle, ds_fetching, ds_complete}
  /\ id.bytes_fetched \in 0..INSN_DECODE_MAXBYTES
  /\ op \in {"init", "begin", "continue", "complete"}
  /\ ret_continue \in BOOLEAN
  /\ id2.state \in {ds_idle, ds_fetching, ds_complete}
  /\ callee \in {"id", "id2"}

----------------------------------------------------------------------------
(* One instruction decoded on a fresh session, for every first opcode byte *)

AllBytes == 0..255

\* operand bytes fed as byte number n of the single instruction
OperandBytes(c, n) ==
  CASE c \in {"cpu_6502", "cpu_65c02", "cpu_6800"} ->
         (IF n = 1 THEN {\h00, \h10, \h7F, \h80, \hFD}
          ELSE IF n = 2 THEN {\h00, \h30, \h80, \hFF}
          ELSE {\h00})
    [] c \in {"cpu_6809", "cpu_6809e"} ->
         (IF n = 1 THEN {\hFD, \hAE, \hA9, \h8C, \h21, \h9F, \h46, \h3F, \h83}
          ELSE IF n = 2 THEN {\hA9, \h01, \h8C, \h9F, \hFF}
          ELSE IF n = 3 THEN {\h01, \h80}
          ELSE IF n = 4 THEN {\h80, \h00}
          ELSE {\h00})
    [] c = "cpu_z80" ->
         (IF n = 1 THEN {\h7E, \hCB, \h36, \hFC, \hE9, \h4B, \h00, \h7F}
          ELSE IF n = 2 THEN {\h05, \h0A, \hFB, \h80}
          ELSE IF n = 3 THEN {\h06, \hA5, \h00}
          ELSE {\h00})
    [] OTHER -> {\h00}

BeginFirst ==
  /\ id.state = ds_idle
  /\ \E addr \in AddrSet, b \in AllBytes : Begin(addr, b)

FeedOperand ==
  /\ id.state = ds_fetching
  /\ \E b \in OperandBytes(cpu, id.bytes_fetched) : Continue(b)

NextT == BeginFirst \/ FeedOperand

SpecT == Init /\ [][NextT]_vars

----------------------------------------------------------------------------
(* Z80 instructions with an index prefix, for every opcode and displacement *)

\* bytes fed after the prefix, the opcode and the first operand byte
IndexTailBytes == {\h00, \hA5}

BeginIndex ==
  /\ id.state = ds_idle /\ cpu = "cpu_z80"
  /\ \E b \in {\hDD, \hFD} : Begin(<<0, \h1003>>, b)

FeedIndexed ==
  /\ id.state = ds_fetching
  /\ \E b \in (IF id.bytes_fetched <= 2 THEN AllBytes ELSE IndexTailBytes) :
       Continue(b)

NextZ == BeginIndex \/ FeedIndexed

SpecZ == Init /\ [][NextZ]_vars

----------------------------------------------------------------------------
(* Two sessions of one architecture, their calls interleaved *)

PairCpus == {"cpu_6502", "cpu_6809"}
PairAddr == <<0, \h1003>>

PairFirstBytes(c) ==
  CASE c = "cpu_6502" -> {\h00, \h10}
    [] c = "cpu_6809" -> {\h12, \h30}
    [] OTHER -> {\h00}

PairContBytes(c, n) ==
  CASE c = "cpu_6502" -> {\h10}
    [] c = "cpu_6809" ->
         (CASE n = 1 -> {\hFD} [] n = 2 -> {\h8C} [] n = 3 -> {\h01} [] OTHER -> {\h00})
    [] OTHER -> {\h00}

\* id2 after a call on id that took id to new: struct insn_decode ends with
\* insn_string[INSN_DECODE_MAXSTRING] and has no padding after it, so the byte
\* after the buffer is the first byte of the object that follows, here the low
\* byte of id2.state.  A text of INSN_DECODE_MAXSTRING characters puts its
\* terminating NUL there (state becomes 0, ds_idle) in the builds that place
\* id2 right after id, and elsewhere in the others.
Spilled(old, new, nb) ==
  IF new.insn_string # old.insn_string /\ Len(new.insn_string) >= INSN_DECODE_MAXSTRING
  THEN {nb, [nb EXCEPT !.state = ds_idle]}
  ELSE {nb}

\* the caller calls insn_decode_begin(&id, addr, b)
PairBegin1(addr, b) ==
  /\ LET returned(r) == id' \in Stored(id, r) /\ id2' \in Spilled(id, r, id2)
     IN returned(insn_decode_begin(id, addr, b))
  /\ callee' = "id"
  /\ op' = "begin"
  /\ feeds' = IF BeginAccepted THEN 0 ELSE feeds
  /\ seen' = IF BeginAccepted THEN <<>> ELSE seen
  /\ ret_continue' = FALSE
  /\ ret_complete' = ""
  /\ UNCHANGED cpu

\* the caller calls insn_decode_continue(&id, b)
PairContinue1(b) ==
  /\ LET returned(r) ==
           /\ id' \in Stored(id, r.id)
           /\ id2' \in Spilled(id, r.id, id2)
           /\ ret_continue' = r.ret
     IN returned(insn_decode_continue(id, b))
  /\ callee' = "id"
  /\ op' = "continue"
  /\ feeds' = IF id.state = ds_fetching THEN feeds + 1 ELSE feeds
  /\ ret_complete' = ""
  /\ UNCHANGED <<cpu, seen>>

\* the caller calls insn_decode_complete(&id)
PairComplete1 ==
  /\ LET returned(r) ==
           /\ id' = r.id
           /\ ret_complete' = r.ret
           /\ seen' = IF id.state = ds_complete /\ Len(seen) < MaxReads
                      THEN Append(seen, r.ret) ELSE seen
     IN returned(insn_decode_complete(id))
  /\ callee' = "id"
  /\ op' = "complete"
  /\ ret_continue' = FALSE
  /\ UNCHANGED <<cpu, feeds, id2>>

\* the caller calls insn_decode_begin(&id2, addr, b)
PairBegin2(addr, b) ==
  /\ id2' \in Stored(id2, insn_decode_begin(id2, addr, b))
  /\ callee' = "id2"
  /\ op' = "begin"
  /\ ret_continue' = FALSE
  /\ ret_complete' = ""
  /\ UNCHANGED <<cpu, id, feeds, seen>>

\* the caller calls insn_decode_continue(&id2, b)
PairContinue2(b) ==
  /\ LET returned(r) == id2' \in Stored(id2, r.id) /\ ret_continue' = r.ret
     IN returned(insn_decode_continue(id2, b))
  /\ callee' = "id2"
  /\ op' = "continue"
  /\ ret_complete' = ""
  /\ UNCHANGED <<cpu, id, feeds, seen>>

\* the caller calls insn_decode_complete(&id2)
PairComplete2 ==
  /\ LET returned(r) == id2' = r.id /\ ret_complete' = r.ret
     IN returned(insn_decode_complete(id2))
  /\ callee' = "id2"
  /\ op' = "complete"
  /\ ret_continue' = FALSE
  /\ UNCHANGED <<cpu, id, feeds, seen>>

PairBeginCall1 == \E b \in PairFirstBytes(cpu) : PairBegin1(PairAddr, b)
PairContinueCall1 == \E b \in PairContBytes(cpu, id.bytes_fetched) : PairContinue1(b)
PairBeginCall2 == \E b \in PairFirstBytes(cpu) : PairBegin2(PairAddr, b)
PairContinueCall2 == \E b \in PairContBytes(cpu, id2.bytes_fetched) : PairContinue2(b)

InitPair == Init /\ cpu \in PairCpus

NextPair ==
  \/ PairBeginCall1 \/ PairContinueCall1 \/ PairComplete1
  \/ PairBeginCall2 \/ PairContinueCall2 \/ PairComplete2

SpecPair == InitPair /\ [][NextPair]_vars

----------------------------------------------------------------------------
(* One 6809 indexed instruction, plain and after a page prefix, for every *)
(* index postbyte                                                         *)

\* LDA indexed; the page 2 prefix, followed by LDY indexed
IndexedFirstBytes == {\hA6, \h10}
PrefixedIndexedOpcode == \hAE
PostbyteTailBytes == {\h00, \hA5}

\* the bytes fed as byte number n: every value where the index postbyte goes
PostbyteBytes(first, n) ==
  IF first = \h10
  THEN (IF n = 1 THEN {PrefixedIndexedOpcode}
        ELSE IF n = 2 THEN AllBytes ELSE PostbyteTailBytes)
  ELSE (IF n = 1 THEN AllBytes ELSE PostbyteTailBytes)

BeginIndexed ==
  /\ id.state = ds_idle
  /\ cpu = "cpu_6809"
  /\ \E b \in IndexedFirstBytes : Begin(<<0, \h1003>>, b)

FeedPostbyte ==
  /\ id.state = ds_fetching
  /\ \E b \in PostbyteBytes(id.bytes[0], id.bytes_fetched) : Continue(b)

NextX == BeginIndexed \/ FeedPostbyte

SpecX == Init /\ [][NextX]_vars

----------------------------------------------------------------------------
(* One 6809 push/pull instruction, for every register postbyte *)

PshPulFirstBytes == \h34..\h37

BeginPshPul ==
  /\ id.state = ds_idle
  /\ cpu \in {"cpu_6809", "cpu_6809e"}
  /\ \E b \in PshPulFirstBytes : Begin(<<0, \h1003>>, b)

FeedRegisters ==
  /\ id.state = ds_fetching
  /\ \E b \in AllBytes : Continue(b)

NextP == BeginPshPul \/ FeedRegisters

SpecP == Init /\ [][NextP]_vars

----------------------------------------------------------------------------
(* Z80 LD (IX+d),n and LD (IY+d),n, for every displacement and immediate *)

LdIndexedOpcode == \h36

BeginLdIndexed ==
  /\ id.state = ds_idle
  /\ cpu = "cpu_z80"
  /\ \E b \in {\hDD, \hFD} : Begin(<<0, \h1003>>, b)

FeedLdIndexed ==
  /\ id.state = ds_fetching
  /\ \E b \in (IF id.bytes_fetched = 1 THEN {LdIndexedOpcode} ELSE AllBytes) :
        Continue(b)

NextI == BeginLdIndexed \/ FeedLdIndexed

SpecI == Init /\ [][NextI]_vars

\* the largest number of bytes a resolver looks at before it fixes the length
\* (bytes[3] of a Z80 DD CB / FD CB sequence)
ResolverLookahead == 4

----------------------------------------------------------------------------
(* Properties *)

Overflowed == id.state = ds_complete /\ id.insn_string = "<decode overflow>"

\* C1: bytes_fetched never exceeds INSN_DECODE_MAXBYTES, and a continue() made
\* while the session is Fetching with 8 bytes held stores nothing, completes
\* the session and sets the output to "<decode overflow>".
C1_OverflowBound ==
  /\ id.bytes_fetched <= INSN_DECODE_MAXBYTES
  /\ [][ /\ id'.bytes_fetched <= INSN_DECODE_MAXBYTES
         /\ (op' = "continue" /\ id.state = ds_fetching
               /\ id.bytes_fetched = INSN_DECODE_MAXBYTES)
            => /\ id'.bytes = id.bytes
               /\ id'.bytes_fetched = id.bytes_fetched
               /\ id'.state = ds_complete
               /\ id'.insn_string = "<decode overflow>" ]_vars

C1_Witness ==
  op = "continue" /\ Overflowed /\ id.bytes_fetched = INSN_DECODE_MAXBYTES
    /\ feeds = INSN_DECODE_MAXBYTES

\* C2: an instruction begun with begin() is Complete once 8 continue() calls
\* have been made on it; a session is never Fetching after 8 continue() calls.
C2_CompleteWithin8 ==
  /\ id.state = ds_fetching => feeds < INSN_DECODE_MAXBYTES
  /\ feeds >= INSN_DECODE_MAXBYTES => id.state = ds_complete

C2_Witness ==
  feeds = INSN_DECODE_MAXBYTES /\ id.state = ds_complete /\ op = "continue"

\* C3 (as claimed): for every first opcode byte the resolver fixes a byte count
\* (at the latest once it holds every byte it looks at), and a completed
\* session holds exactly that many bytes and a text of 1 to 28 characters.
C3_Totality ==
  /\ (id.state # ds_idle /\ id.bytes_fetched >= ResolverLookahead)
        => id.bytes_required > 0
  /\ id.state = ds_complete
        => /\ id.bytes_fetched = id.bytes_required
           /\ Len(id.insn_string) >= 1
           /\ Len(id.insn_string) <= INSN_DECODE_MAXSTRING

\* C4 (as claimed): whenever bytes_required > 0, bytes_fetched <= bytes_required.
C4_FetchedWithinRequired ==
  id.bytes_required > 0 => id.bytes_fetched <= id.bytes_required

\* C5: once bytes_required is > 0, no call other than a begin() changes it.
C5_RequiredFixed ==
  [][ (id.bytes_required > 0 /\ op' # "begin")
        => id'.bytes_required = id.bytes_required ]_vars

C5_Witness ==
  op = "continue" /\ cpu = "cpu_6502" /\ id.state = ds_fetching
    /\ id.bytes_required = 3 /\ id.bytes_fetched = 2

\* C6 (as claimed): continue() returns true exactly when the call moved the
\* session out of Fetching.
C6_ReturnsTransition ==
  [][ op' = "continue"
        => (ret_continue' <=> (id.state = ds_fetching /\ id'.state # ds_fetching)) ]_vars

\* C6 (amended): continue() returns true exactly when the session was Fetching
\* with fewer than 8 bytes held before the call, that is when the byte was
\* stored and the decode routine ran, whether or not the instruction completed.
C6_ReturnsWasFetching ==
  [][ op' = "continue"
        => (ret_continue' <=> (id.state = ds_fetching
                                 /\ id.bytes_fetched < INSN_DECODE_MAXBYTES)) ]_vars

C6_Witness ==
  op = "continue" /\ ret_continue /\ id.state = ds_fetching

\* C7: begin() made while the session is Fetching leaves the session unchanged.
C7_BeginWhileFetching ==
  [][ (op' = "begin" /\ id.state = ds_fetching) => id' = id ]_vars

C7_Witness ==
  op = "begin" /\ id.state = ds_fetching /\ id.bytes_fetched >= 2

\* C8: continue() made while the session is Idle or Complete returns false
\* and leaves the session unchanged.
C8_ContinueWhenNotFetching ==
  [][ (op' = "continue" /\ id.state # ds_fetching)
        => (id' = id /\ ret_continue' = FALSE) ]_vars

C8_Witness ==
  op = "continue" /\ ~ret_continue /\ id.state = ds_complete
    /\ feeds < id.bytes_fetched /\ id.bytes_fetched < INSN_DECODE_MAXBYTES

\* C9: complete() never modifies the session, and all complete() calls made
\* after the session reached Complete return the same string until a begin().
C9_IdempotentRead ==
  /\ [](\A i \in 1..Len(seen) : seen[i] = seen[1])
  /\ []((op = "complete" /\ id.state = ds_complete) => ret_complete = seen[1])
  /\ [][ op' = "complete" => id' = id ]_vars

C9_Witness ==
  op = "complete" /\ id.state = ds_complete /\ Len(seen) = MaxReads
    /\ ret_complete # ""

\* C10: complete() returns the empty string while the session is Idle or
\* Fetching, also when the buffer still holds the previous instruction's text.
C10_EmptyUnlessComplete ==
  (op = "complete" /\ id.state \in {ds_idle, ds_fetching}) => ret_complete = ""

C10_Witness ==
  op = "complete" /\ id.state = ds_fetching /\ cpu = "cpu_6502"
    /\ id.insn_string \notin GarbageStrings /\ ret_complete = ""

\* C11 (as claimed): the output buffer insn_string holds non-empty text if and
\* only if the session is Complete; it is empty in Idle and while Fetching.
C11_BufferIffComplete ==
  (id.insn_string # "") <=> (id.state = ds_complete)

\* C11 (amended): the buffer is non-empty whenever the session is Complete, and
\* the text insn_decode_complete() exposes is non-empty if and only if the
\* session is Complete; the buffer itself may hold the previous instruction's
\* text or a Z80 template while the session is Fetching.
C11_ExposedIffComplete ==
  /\ id.state = ds_complete => id.insn_string # ""
  /\ op = "complete" => ((ret_complete # "") <=> (id.state = ds_complete))

C11_Witness ==
  op = "complete" /\ cpu = "cpu_z80" /\ id.state = ds_fetching
    /\ id.bytes_required > id.bytes_fetched
    /\ id.insn_string \notin GarbageStrings /\ ret_complete = ""

\* C12 (as claimed): a session of an architecture that resolves addressing
\* modes (6800, 6809) which completes with addrmode still am_invalid shows the
\* text "<?ADDRMODE?>".
C12_AddrmodeMarker ==
  (cpu \in {"cpu_6800", "cpu_6809", "cpu_6809e"}
     /\ id.state = ds_complete /\ id.addrmode = am_invalid)
    => id.insn_string = "<?ADDRMODE?>"

\* C13 (as claimed): an instruction whose first byte has the table entry "?"
\* completes at its resolved length with a text that contains '?', and never
\* with "<decode overflow>".
C13_UnknownOpcode ==
  LET entry ==
        CASE cpu \in {"cpu_6502", "cpu_65c02"} -> At(opcodes_for_6502, id.bytes[0])
          [] cpu = "cpu_6800" -> At(opcodes_6800, id.bytes[0])
          [] cpu \in {"cpu_6809", "cpu_6809e"} -> At(opcodes_6809, id.bytes[0])
          [] OTHER -> ""
  IN (id.state = ds_complete /\ entry = "?")
       => /\ id.insn_string # "<decode overflow>"
          /\ id.bytes_fetched = id.bytes_required
          /\ StrStr(id.insn_string, "?") # -1

C15_AnnotationFourDigits ==
  (id.state = ds_complete /\ id.resolved_address_valid)
    => LET n == Len(id.insn_string)
       IN /\ n >= 7
          /\ SubSeq(id.insn_string, n - 6, n)
               = " <" \o HexMin(id.resolved_address[2], 4) \o ">"

\* C16 (as claimed): a session has a printable result once 8 bytes have been
\* supplied, that is after begin() and at most 7 continue() calls.
C16_PrintableWithin8Bytes ==
  id.state = ds_fetching => feeds < INSN_DECODE_MAXBYTES - 1

\* C17 (as claimed): 6502, begin(0x1006, 0x10), continue(0x10) completes with
\* the resolved target 0x1018 and the text "BPL 16 <1018>".
C17_BplSingleSpace ==
  (cpu = "cpu_6502" /\ id.insn_address = <<0, \h1006>> /\ id.bytes_fetched = 2
     /\ id.bytes[0] = \h10 /\ id.bytes[1] = \h10)
    => /\ id.state = ds_complete
       /\ id.resolved_address_valid /\ id.resolved_address = <<0, \h1018>>
       /\ id.insn_string = "BPL 16 <1018>"

\* C17 (amended): 6502, begin(0x1006, 0x10), continue(0x10) completes with the
\* resolved target 0x1018 and the text "BPL 16   <1018>": the offset is
\* left-justified in the four-character field of the template.
C17_BplPadded ==
  (cpu = "cpu_6502" /\ id.insn_address = <<0, \h1006>> /\ id.bytes_fetched = 2
     /\ id.bytes[0] = \h10 /\ id.bytes[1] = \h10)
    => /\ id.state = ds_complete
       /\ id.resolved_address_valid /\ id.resolved_address = <<0, \h1018>>
       /\ id.insn_string = "BPL 16   <1018>"

C17_Witness ==
  cpu = "cpu_6502" /\ op = "continue" /\ id.state = ds_complete
    /\ id.insn_address = <<0, \h1006>> /\ id.bytes_fetched = 2
    /\ id.bytes[0] = \h10 /\ id.bytes[1] = \h10 /\ ret_continue

\* C18 (as claimed): 6809, an 8-bit relative branch at address A with signed
\* offset d completes with the resolved target A + 2 + d; begin(0x1003, 0x20),
\* continue(0xFD) shows "BRA -3 <1002>".
C18_BraTarget ==
  (cpu = "cpu_6809" /\ id.state = ds_complete /\ id.addrmode = am6809_rel8)
    => /\ id.resolved_address_valid
       /\ id.resolved_address = AddU32(id.insn_address, 2 + S8(id.bytes[1]))
       /\ (id.insn_address = <<0, \h1003>> /\ id.bytes[0] = \h20
             /\ id.bytes[1] = \hFD)
            => id.insn_string = "BRA -3 <1002>"

\* C19: Z80, DD/FD followed by an opcode whose template has the memory
\* reference (HL): the instruction takes one displacement byte more and shows
\* the reference as (IX+d) / (IY+d) or (IX-d) / (IY-d) without spaces, for every
\* displacement; opcode 0xE9 shows "JP (IX)" / "JP (IY)" and is 2 bytes long.
C19_IndexSubstitution ==
  LET opc == id.bytes[1]
      tmpl == At(opcodes_z80, opc)
      reg == IF id.bytes[0] = \hDD THEN "IX" ELSE "IY"
      d == S8(id.bytes[2])
      ref == "(" \o reg \o (IF d >= 0 THEN "+" \o DecU(d) ELSE "-" \o DecU(0 - d))
               \o ")"
      Replace(str, pat, by) ==
        LET i == StrStr(str, pat)
        IN IF i = -1 THEN str
           ELSE SubSeq(str, 1, i) \o by \o SubSeq(str, i + Len(pat) + 1, Len(str))
      length == IF opc = \hE9 THEN 2
                ELSE 3 + (IF StrStr(tmpl, "XXh") # -1 THEN 1 ELSE 0)
      text == IF opc = \hE9 THEN "JP (" \o reg \o ")"
              ELSE Replace(Replace(tmpl, "(HL)", ref),
                           "XXh", HexMin(id.bytes[3], 2) \o "h")
  IN (cpu = "cpu_z80" /\ id.bytes_fetched >= 2 /\ id.bytes[0] \in {\hDD, \hFD}
        /\ StrStr(tmpl, "(HL)") # -1)
       => /\ id.bytes_required = length
          /\ id.bytes_fetched <= length
          /\ id.bytes_fetched = length
               => (id.state = ds_complete /\ id.insn_string = text)

C19_Witness ==
  cpu = "cpu_z80" /\ id.state = ds_complete /\ id.bytes_fetched = 3
    /\ id.bytes[0] = \hFD /\ id.bytes[1] = \h7E /\ id.bytes[2] = \h80
    /\ id.insn_string = "LD A,(IY-128)"

\* C20 (as claimed): 6502/65C02, an instruction whose template has the marker
\* nnnn completes with the 4 uppercase hex digits of the unsigned 16-bit
\* operand hi * 256 + lo in place of the marker, for 0x8000..0xFFFF as well.
C20_AbsoluteOperand ==
  (cpu \in {"cpu_6502", "cpu_65c02"} /\ id.state = ds_complete
     /\ id.addrmode = am6502_u16)
    => LET tmpl == At(opcodes_for_6502, id.bytes[0])
           value == id.bytes[2] * 256 + id.bytes[1]
       IN /\ StrStr(tmpl, "nnnn") # -1
          /\ id.insn_string = MemCpy(tmpl, StrStr(tmpl, "nnnn"), HexMin(value, 4), 4)

\* C21 (as claimed): Z80, an instruction whose template has the PC-relative
\* marker rrrr (JR, JR cc, DJNZ): for every offset byte b, read as the signed
\* 8-bit value s, the completed text shows the decimal s + 2 in place of the
\* marker and the resolved target is insn_address + 2 + s.
C21_PcrelPlusTwo ==
  LET tmpl == At(opcodes_z80, id.bytes[0])
      s == S8(id.bytes[1])
      target == AddU32(id.insn_address, 2 + s)
  IN (cpu = "cpu_z80" /\ id.state = ds_complete /\ ~Overflowed
        /\ StrStr(tmpl, "rrrr") # -1)
       => /\ id.resolved_address_valid
          /\ id.resolved_address = target
          /\ id.insn_string
               = MemCpy(tmpl, StrStr(tmpl, "rrrr"), DecLeft(s + 2, 4), 4)
                   \o " <" \o Hex04U32(target) \o ">"

\* C22: 6502/65C02 opcodes whose template has the marker rrrr, and the 6800
\* relative opcodes 0x20..0x2F and 0x8D: the instruction completes with its
\* second byte, resolved_address_valid is true and the resolved target is
\* (insn_address + 2 + the signed 8-bit offset) mod 2^32.
C22_RelativeTarget ==
  LET opc == id.bytes[0]
      relative ==
        \/ /\ cpu \in {"cpu_6502", "cpu_65c02"}
           /\ StrStr(At(opcodes_for_6502, opc), "rrrr") # -1
        \/ /\ cpu = "cpu_6800"
           /\ (opc \in \h20..\h2F \/ opc = \h8D)
  IN (relative /\ id.bytes_fetched >= 2)
       => /\ id.state = ds_complete
          /\ id.bytes_fetched = 2
          /\ id.resolved_address_valid
          /\ id.resolved_address = AddU32(id.insn_address, 2 + S8(id.bytes[1]))

\* a 6800 BSR at 0xFFFFFFF0 with offset +127: the target wraps to 0x00000071
C22_Witness ==
  cpu = "cpu_6800" /\ op = "continue" /\ id.state = ds_complete
    /\ id.bytes[0] = \h8D /\ id.bytes[1] = \h7F
    /\ id.insn_address = <<\hFFFF, \hFFF0>>
    /\ id.resolved_address_valid /\ id.resolved_address = <<0, \h0071>>

C24_ResolvedInBegin ==
  LET tmpl == At(opcodes_for_6502, id.bytes[0])
      length == IF StrStr(tmpl, "nnnn") # -1 THEN 3
                ELSE IF StrStr(tmpl, "nn") # -1 THEN 2
                ELSE IF StrStr(tmpl, "rrrr") # -1 THEN 2
                ELSE 1
  IN (cpu \in {"cpu_6502", "cpu_65c02"} /\ id.state # ds_idle)
       => /\ id.bytes_required = length
          /\ id.bytes_fetched <= length
          /\ (id.state = ds_complete) = (id.bytes_fetched = length)
          /\ ~Overflowed
          /\ id.bytes[0] = \h00
               => id.state = ds_complete /\ id.bytes_fetched = 1
                    /\ id.insn_string = "BRK"

C24_Witness ==
  cpu = "cpu_6502" /\ op = "begin" /\ id.bytes[0] = \h00
    /\ id.state = ds_complete /\ id.bytes_required = 1 /\ id.insn_string = "BRK"

\* C25: 6800: on the first byte every opcode 0..255 gets one of the seven
\* addressing modes, never am_invalid; 0x8D is relative, 0x8E and 0xCE are
\* 16-bit immediate, the rest of 0x80..0x8F and 0xC0..0xCF 8-bit immediate;
\* the length is 1 for inherent, 2 for relative, indexed, direct and 8-bit
\* immediate, 3 for extended and 16-bit immediate; the session completes when
\* that many bytes are held and never shows "<?ADDRMODE?>" or
\* "<decode overflow>".
C25_Modes6800 ==
  LET opc == id.bytes[0]
      length == CASE id.addrmode = am6800_inherent -> 1
                  [] id.addrmode \in {am6800_rel, am6800_indexed, am6800_direct,
                                      am6800_imm8} -> 2
                  [] id.addrmode \in {am6800_extended, am6800_imm16} -> 3
                  [] OTHER -> 0
  IN (cpu = "cpu_6800" /\ id.state # ds_idle)
       => /\ id.addrmode \in {am6800_inherent, am6800_rel, am6800_indexed,
                              am6800_extended, am6800_direct, am6800_imm8,
                              am6800_imm16}
          /\ (opc \in \h80..\h8F \cup \hC0..\hCF)
               => id.addrmode = (IF opc = \h8D THEN am6800_rel
                                 ELSE IF opc \in {\h8E, \hCE} THEN am6800_imm16
                                 ELSE am6800_imm8)
          /\ id.bytes_required = length
          /\ id.bytes_fetched <= length
          /\ (id.state = ds_complete) = (id.bytes_fetched = length)
          /\ id.state = ds_complete
               => id.insn_string \notin {"", "<?ADDRMODE?>", "<decode overflow>"}

\* LDX #$1030, the 16-bit immediate special case, completed with its 3rd byte
C25_Witness ==
  cpu = "cpu_6800" /\ op = "continue" /\ id.state = ds_complete
    /\ id.bytes[0] = \hCE /\ id.addrmode = am6800_imm16 /\ id.bytes_fetched = 3
    /\ id.insn_string = "LDX #$1030"

\* C26: 6809 page prefixes: after begin() with first byte 0x10 or 0x11 the
\* session is Fetching with bytes_required = 0; once a mode is resolved,
\* bytes_required = 1 + the extra-byte count of the mode + 1 if the first byte
\* is 0x10 or 0x11; for an indexed opcode the mode is resolved only after the
\* index postbyte is held (the 2nd byte, or the 3rd after a prefix), and it is
\* the mode of that postbyte.
C26_PagePrefix ==
  LET opc == id.bytes[0]
      prefixed == opc \in {\h10, \h11}
      page == BitAnd(id.bytes[1], \hF0)
      indexed ==
        IF prefixed
        THEN /\ id.bytes_fetched >= 2
             /\ \/ opc = \h10 /\ page \in {\hA0, \hE0}
                \/ opc = \h11 /\ page = \hA0
        ELSE opc \in (\h30..\h33) \cup (\h60..\h6F) \cup (\hA0..\hAF)
                       \cup (\hE0..\hEF)
      pbAt == IF prefixed THEN 2 ELSE 1
  IN (cpu \in {"cpu_6809", "cpu_6809e"} /\ id.state # ds_idle)
       => /\ (prefixed /\ id.bytes_fetched = 1)
               => id.state = ds_fetching /\ id.bytes_required = 0
          /\ id.bytes_required # 0
               => /\ id.addrmode >= am6809_first /\ id.addrmode <= am6809_last
                  /\ id.bytes_required
                       = 1 + At(insn_postbytes_6809, id.addrmode - am6809_first)
                           + (IF prefixed THEN 1 ELSE 0)
          /\ indexed
               => /\ id.bytes_fetched <= pbAt => id.bytes_required = 0
                  /\ id.bytes_fetched > pbAt
                       => id.addrmode
                            = insn_decode_addrmode_indexed_6809(id.bytes[pbAt])

\* LDY with an 8-bit PC-relative operand after the prefix 0x10: 4 bytes
C26_Witness ==
  cpu = "cpu_6809" /\ op = "continue" /\ id.state = ds_complete
    /\ id.bytes[0] = \h10 /\ id.bytes[1] = \hAE /\ id.bytes[2] = \h8C
    /\ id.addrmode = am6809_pcrel8 /\ id.bytes_required = 4
    /\ id.bytes_fetched = 4

\* C27: 6809: a completed instruction has a resolved target exactly when its
\* mode is rel8, rel16, pcrel8, pcrel8_ind, pcrel16 or pcrel16_ind; the target
\* is (insn_address + the signed offset shown in the text) mod 2^32, the
\* length of the instruction not added; in every other mode
\* resolved_address_valid is false.
C27_ResolvedTarget6809 ==
  LET relative == {am6809_rel8, am6809_rel16}
      pcrel == {am6809_pcrel8, am6809_pcrel8_ind, am6809_pcrel16, am6809_pcrel16_ind}
      \* every signed 8-bit and 16-bit value the bytes of the session can show
      offsets == {S8(id.bytes[k]) : k \in 0..(INSN_DECODE_MAXBYTES - 1)}
                   \cup {read_s16be(id.bytes, k) : k \in 0..(INSN_DECODE_MAXBYTES - 2)}
      shown(d) ==
        IF id.addrmode \in relative
        THEN StrStr(id.insn_string, " " \o Dec(d) \o " <") # -1
        ELSE \/ StrStr(id.insn_string, " " \o Dec(d) \o ",PCR") # -1
             \/ StrStr(id.insn_string, "[" \o Dec(d) \o ",PCR") # -1
  IN (cpu \in {"cpu_6809", "cpu_6809e"} /\ id.state = ds_complete)
       => /\ id.resolved_address_valid = (id.addrmode \in relative \cup pcrel)
          /\ id.resolved_address_valid
               => \E d \in offsets :
                     /\ shown(d)
                     /\ id.resolved_address = AddU32(id.insn_address, d)

\* LEAX with a 16-bit PC-relative indirect operand at 0x1003: offset -29695
C27_Witness ==
  cpu = "cpu_6809" /\ op = "continue" /\ id.state = ds_complete
    /\ id.addrmode = am6809_pcrel16_ind /\ id.insn_address = <<0, \h1003>>
    /\ id.bytes[0] = \h30 /\ id.bytes[2] = \h8C /\ id.bytes[3] = \h01
    /\ id.resolved_address_valid /\ id.resolved_address = <<\hFFFF, \h9C04>>

\* a 6809 indexed opcode holds its index postbyte: the 2nd byte, or the 3rd
\* byte after a page prefix
IndexPostbyteHeld ==
  /\ cpu \in {"cpu_6809", "cpu_6809e"}
  /\ id.state # ds_idle
  /\ IF id.bytes[0] \in {\h10, \h11}
     THEN /\ id.bytes_fetched >= 3
          /\ \/ id.bytes[0] = \h10 /\ BitAnd(id.bytes[1], \hF0) \in {\hA0, \hE0}
             \/ id.bytes[0] = \h11 /\ BitAnd(id.bytes[1], \hF0) = \hA0
     ELSE /\ id.bytes_fetched >= 2
          /\ id.bytes[0] \in (\h30..\h33) \cup (\h60..\h6F) \cup (\hA0..\hAF)
                               \cup (\hE0..\hEF)

IndexPostbyte == id.bytes[IF id.bytes[0] \in {\h10, \h11} THEN 2 ELSE 1]

\* C28 (as claimed): 6809 index postbyte: the mode is extended indirect if and
\* only if the postbyte is 0x9F; 0xBF, 0xDF and 0xFF are not extended indirect.
C28_ExtendedIndirectOnly9F ==
  IndexPostbyteHeld
    => (id.addrmode = am6809_extended_ind) = (IndexPostbyte = \h9F)

\* C28 (amended): 6809 index postbyte: the mode is extended indirect if and
\* only if bit 7 and bits 4..0 of the postbyte are all set, whatever the
\* register-select bits 5 and 6: for 0x9F, 0xBF, 0xDF and 0xFF and no other.
C28_ExtendedIndirectAnyRegister ==
  IndexPostbyteHeld
    => (id.addrmode = am6809_extended_ind)
         = (IndexPostbyte \in {\h9F, \hBF, \hDF, \hFF})

\* LDA with the postbyte 0xBF and the address 0x00A5
C28_Witness ==
  IndexPostbyteHeld /\ op = "continue" /\ id.state = ds_complete
    /\ id.bytes[0] = \hA6 /\ IndexPostbyte = \hBF
    /\ id.addrmode = am6809_extended_ind /\ id.insn_string = "LDA [$00A5]"

\* C29: 6809 index postbyte with bit 7 set and bits 7, 3..0 matching a pattern
\* of the table: bit 4 clear gives the base mode, bit 4 set gives the indirect
\* mode of that base (am6809_indirect_p holds for it), except that
\* post-increment by 1 and pre-decrement by 1 with bit 4 set give am_invalid;
\* a postbyte with bit 7 clear gives const_off5 whatever bit 4 is.
C29_IndirectFlag ==
  LET pb == IndexPostbyte
      \* pattern, base mode, mode with the indirect flag
      table == { <<\b10000100, am6809_zero_off, am6809_zero_off_ind>>,
                 <<\b10001000, am6809_const_off8, am6809_const_off8_ind>>,
                 <<\b10001001, am6809_const_off16, am6809_const_off16_ind>>,
                 <<\b10000110, am6809_acc_off, am6809_acc_off_ind>>,
                 <<\b10000101, am6809_acc_off, am6809_acc_off_ind>>,
                 <<\b10001011, am6809_acc_off, am6809_acc_off_ind>>,
                 <<\b10000000, am6809_post_inc1, am_invalid>>,
                 <<\b10000001, am6809_post_inc2, am6809_post_inc2_ind>>,
                 <<\b10000010, am6809_pre_dec1, am_invalid>>,
                 <<\b10000011, am6809_pre_dec2, am6809_pre_dec2_ind>>,
                 <<\b10001100, am6809_pcrel8, am6809_pcrel8_ind>>,
                 <<\b10001101, am6809_pcrel16, am6809_pcrel16_ind>> }
  IN IndexPostbyteHeld
       => /\ BitAnd(pb, \b10000000) = 0 => id.addrmode = am6809_const_off5
          /\ \A row \in table :
               BitAnd(pb, \b10001111) = row[1]
                 => /\ id.addrmode
                         = (IF BitAnd(pb, \b00010000) # 0 THEN row[3] ELSE row[2])
                    /\ ~am6809_indirect_p(row[2])
                    /\ row[3] # am_invalid => am6809_indirect_p(row[3])

\* LDA ,X+ with the indirect flag set (postbyte 0x90), and no mode for it
C29_Witness ==
  IndexPostbyteHeld /\ op = "continue" /\ id.bytes[0] = \hA6
    /\ IndexPostbyte = \h90 /\ id.addrmode = am_invalid
    /\ id.state = ds_fetching /\ id.bytes_required = 0

\* the register list of a completed 6809 push/pull instruction: the text after
\* the 4-letter mnemonic and the space
PshPulRegisters == SubSeq(id.insn_string, 6, Len(id.insn_string))

PshPulComplete ==
  /\ cpu \in {"cpu_6809", "cpu_6809e"}
  /\ id.state = ds_complete
  /\ id.bytes[0] \in \h34..\h37

\* C30 (as claimed): 6809 push/pull: bit 6 of the postbyte is shown as U when
\* the opcode is PSHU/PULU (0x36/0x37) and as S when it is PSHS/PULS
\* (0x34/0x35).
C30_OwnStackPointer ==
  LET named == IF id.bytes[0] \in {\h36, \h37} THEN "U" ELSE "S"
  IN (PshPulComplete /\ BitAnd(id.bytes[1], \h40) # 0)
       => StrStr(PshPulRegisters, named) # -1

\* C30 (amended): 6809 push/pull: bit 6 of the postbyte is the other stack
\* pointer: it is shown as U when the opcode is PSHS/PULS (0x34/0x35) and as S
\* when it is PSHU/PULU (0x36/0x37); with bit 6 clear neither is listed.
C30_OtherStackPointer ==
  LET named == IF id.bytes[0] \in {\h34, \h35} THEN "U" ELSE "S"
      other == IF id.bytes[0] \in {\h34, \h35} THEN "S" ELSE "U"
  IN PshPulComplete
       => /\ id.addrmode = am6809_psh_pul
          /\ (StrStr(PshPulRegisters, named) # -1)
               = (BitAnd(id.bytes[1], \h40) # 0)
          /\ StrStr(PshPulRegisters, other) = -1

C30_Witness ==
  PshPulComplete /\ op = "continue" /\ id.bytes[0] = \h34 /\ id.bytes[1] = \h46
    /\ id.insn_string = "PSHS A,B,U"

\* C31: 6809 push/pull: for every postbyte the text is the mnemonic, a space
\* and the registers of the set bits in ascending bit order CCR, A, B, DPR, X,
\* Y, (bit 6), PC, separated by single commas, with no comma before the first
\* or after the last; bit 6 is U for PSHS/PULS (0x34/0x35) and S for PSHU/PULU
\* (0x36/0x37); 34 46 shows "PSHS A,B,U" and 37 40 shows "PULU S".
C31_RegisterList ==
  LET opc == id.bytes[0]
      pb == id.bytes[1]
      mnemonic == CASE opc = \h34 -> "PSHS" [] opc = \h35 -> "PULS"
                    [] opc = \h36 -> "PSHU" [] OTHER -> "PULU"
      stack == IF opc \in {\h34, \h35} THEN "U" ELSE "S"
      names == <<"CCR", "A", "B", "DPR", "X", "Y", stack, "PC">>
      listed == {j \in 1..8 : BitAnd(pb, 2 ^ (j - 1)) # 0}
      RECURSIVE joined(_)
      joined(j) ==
        IF j > 8 THEN ""
        ELSE IF j \notin listed THEN joined(j + 1)
        ELSE names[j] \o (IF \E k \in listed : k > j THEN "," ELSE "")
               \o joined(j + 1)
  IN PshPulComplete
       => /\ id.bytes_fetched = 2
          /\ id.insn_string = mnemonic \o " " \o joined(1)
          /\ (opc = \h34 /\ pb = \h46) => id.insn_string = "PSHS A,B,U"
          /\ (opc = \h37 /\ pb = \h40) => id.insn_string = "PULU S"

C31_Witness ==
  PshPulComplete /\ op = "continue" /\ id.bytes[0] = \h37 /\ id.bytes[1] = \hC3
    /\ id.insn_string = "PULU CCR,A,S,PC"

\* C32 (as claimed): 6809 const_off16 and const_off16_ind: the offset shown is
\* the signed big-endian 16-bit value of the two bytes that follow the index
\* postbyte, without a page prefix (A0 A9 01 80 shows "SUBA 384,Y") and with
\* one (10 AE A9 01 80 shows the offset 384).
C32_Offset16AfterPostbyte ==
  LET prefixed == id.bytes[0] \in {\h10, \h11}
      pbAt == IF prefixed THEN 2 ELSE 1
      d == read_s16be(id.bytes, pbAt + 1)
  IN (cpu \in {"cpu_6809", "cpu_6809e"} /\ id.state = ds_complete
        /\ id.addrmode \in {am6809_const_off16, am6809_const_off16_ind})
       => /\ id.bytes_fetched = pbAt + 3
          /\ \/ StrStr(id.insn_string, " " \o Dec(d) \o ",") # -1
             \/ StrStr(id.insn_string, "[" \o Dec(d) \o ",") # -1
          /\ (~prefixed /\ id.bytes[0] = \hA0 /\ id.bytes[1] = \hA9
                /\ id.bytes[2] = \h01 /\ id.bytes[3] = \h80)
               => id.insn_string = "SUBA 384,Y"

\* the length the placeholders of its template give a Z80 instruction: the
\* opcode and prefix bytes, 1 for each XXh, +ddd and rrrr, 2 for each XXXXh
Z80LengthOf(s) ==
  LET b0 == s.bytes[0]
      opcode_bytes == IF b0 \in {\hDD, \hFD}
                      THEN (IF s.bytes[1] = \hCB THEN 3 ELSE 2)
                      ELSE IF b0 \in {\hCB, \hED} THEN 2 ELSE 1
      RECURSIVE count(_, _, _)
      count(str, pat, from) ==
        LET at == StrStrFrom(str, pat, from)
        IN IF at = -1 THEN 0 ELSE 1 + count(str, pat, at + Len(pat))
      operand_bytes(t) ==
        2 * count(t, "XXXXh", 0)
          + (count(t, "XXh", 0) - count(t, "XXXXh", 0))
          + count(t, "+ddd", 0) + count(t, "rrrr", 0)
  IN opcode_bytes + operand_bytes(z80_insn_template(s).str)

\* C33: Z80: once the template is fixed, bytes_required is the number of
\* opcode and prefix bytes (1 for a plain opcode, 2 after CB, ED, DD or FD,
\* 3 for DD CB / FD CB) plus, over the placeholders of the template, 1 for
\* each XXh, +ddd and rrrr and 2 for each XXXXh; it is between 1 and 4 and
\* does not change until the next begin().
C33_LengthRule ==
  [][ /\ (cpu = "cpu_z80" /\ id'.bytes_required # 0)
           => /\ id'.bytes_required = Z80LengthOf(id')
              /\ id'.bytes_required \in 1..4
      /\ (cpu = "cpu_z80" /\ id.bytes_required # 0 /\ op' # "begin")
           => id'.bytes_required = id.bytes_required ]_vars

\* LD (IX+10),A5h: two prefix/opcode bytes and two one-byte operands
C33_Witness ==
  cpu = "cpu_z80" /\ op = "continue" /\ id.state = ds_complete
    /\ id.bytes[0] = \hDD /\ id.bytes[1] = \h36 /\ id.bytes_required = 4
    /\ id.bytes_fetched = 4

\* C34 (as claimed): Z80, DD CB d op and FD CB d op, for every displacement d
\* and every fourth byte op: the session stays Fetching through the third byte
\* and is Complete exactly when the fourth byte is held; DD CB 0A 06 shows
\* "RLC (IX+10)".
C34_CompoundPrefix ==
  (cpu = "cpu_z80" /\ id.state # ds_idle /\ id.bytes[0] \in {\hDD, \hFD}
     /\ id.bytes_fetched >= 2 /\ id.bytes[1] = \hCB)
    => /\ id.bytes_fetched <= 3 => id.state = ds_fetching
       /\ id.bytes_fetched >= 4
            => /\ id.state = ds_complete
               /\ id.bytes_fetched = 4
               /\ ~Overflowed
       /\ (id.bytes_fetched = 4 /\ id.bytes[0] = \hDD /\ id.bytes[2] = \h0A
             /\ id.bytes[3] = \h06)
            => id.insn_string = "RLC (IX+10)"

\* C35: Z80, DD 36 d n and FD 36 d n, for every displacement d and every
\* immediate n: the instruction completes with its 4th byte and shows
\* "LD (IX+d),nnh" / "LD (IY-d),nnh": the displacement of byte 2 as a signed
\* decimal without padding, then the immediate of byte 3 as 2 hex digits; no
\* placeholder text (ddd, XX) is left; DD 36 0A A5 shows "LD (IX+10),A5h".
C35_TwoOperands ==
  LET d == S8(id.bytes[2])
      ir == IF id.bytes[0] = \hDD THEN "IX" ELSE "IY"
      disp == IF d < 0 THEN Dec(d) ELSE "+" \o Dec(d)
  IN (cpu = "cpu_z80" /\ id.state # ds_idle /\ id.bytes[0] \in {\hDD, \hFD}
        /\ id.bytes_fetched >= 2 /\ id.bytes[1] = \h36)
       => /\ (id.state = ds_complete) = (id.bytes_fetched = 4)
          /\ id.bytes_fetched <= 4
          /\ id.state = ds_complete
               => /\ id.insn_string
                       = "LD (" \o ir \o disp \o ")," \o HexMin(id.bytes[3], 2) \o "h"
                  /\ StrStr(id.insn_string, "ddd") = -1
                  /\ StrStr(id.insn_string, "XX") = -1
                  /\ ~id.resolved_address_valid

C35_Witness ==
  cpu = "cpu_z80" /\ op = "continue" /\ id.state = ds_complete
    /\ id.bytes[0] = \hDD /\ id.bytes[1] = \h36 /\ id.bytes[2] = \h0A
    /\ id.bytes[3] = \hA5 /\ id.insn_string = "LD (IX+10),A5h"

\* the session after the first n of the given bytes were decoded at addr on a
\* session just initialised, its buffer filled with the byte g
RECURSIVE Refed(_, _, _, _)
Refed(s, bytes, k, n) ==
  IF k >= n THEN s
  ELSE Refed(insn_decode_continue(s, bytes[k]).id, bytes, k + 1, n)

DecodedAlone(addr, bytes, n, g) ==
  Refed(insn_decode_begin(InitSession(cpu, g, ""), addr, bytes[0]), bytes, 1, n)

\* C36 (as claimed): the text and the resolved target of a completed
\* instruction depend only on the architecture, the address given to begin()
\* and the bytes fed for the instruction: they are those of the same address
\* and bytes decoded on a fresh session, whatever earlier instructions left in
\* the buffer beyond the bytes of this instruction.
C36_HistoryIndependent ==
  (id.state = ds_complete /\ ~Overflowed)
    => \A g \in GarbageBytes :
         LET same(r) ==
               /\ r.state = ds_complete
               /\ id.insn_string \in StoredText(r.insn_string)
               /\ id.resolved_address_valid = r.resolved_address_valid
               /\ id.resolved_address = r.resolved_address
         IN same(DecodedAlone(id.insn_address, id.bytes, id.bytes_fetched, g))

\* C37 (as claimed): for every architecture, address and byte sequence, the
\* text of a completed instruction, the target annotation included, and its
\* terminating NUL fit in the buffer of INSN_DECODE_MAXSTRING bytes: the text
\* is at most 27 characters and nothing is written past the buffer.
C37_BufferSafety ==
  id.state = ds_complete => Len(id.insn_string) + 1 <= INSN_DECODE_MAXSTRING

\* C38 (as claimed): in every Complete state either the text is
\* "<decode overflow>" with 8 bytes held, or bytes_fetched = bytes_required
\* with 1 <= bytes_required <= 5; in every Fetching state
\* bytes_fetched < bytes_required or bytes_required = 0.
C38_CompletionInvariant ==
  /\ id.state = ds_complete
       => \/ Overflowed /\ id.bytes_fetched = INSN_DECODE_MAXBYTES
          \/ /\ id.bytes_fetched = id.bytes_required
             /\ id.bytes_required \in 1..5
  /\ id.state = ds_fetching
       => id.bytes_fetched < id.bytes_required \/ id.bytes_required = 0

\* the annotation of the resolved target of session s, " <%04lX>"
Annotation(s) == " <" \o Hex04U32(s.resolved_address) \o ">"

\* the text of s carries the annotation of its own target, once and at its end
\* (before the byte a reader may find past a full buffer)
AnnotatedOnce(s) ==
  LET at == StrStr(s.insn_string, Annotation(s))
      end == at + Len(Annotation(s))
  IN /\ at # -1
     /\ \/ end = Len(s.insn_string)
        \/ Len(s.insn_string) > INSN_DECODE_MAXSTRING /\ end = Len(s.insn_string) - 1
     /\ StrStr(s.insn_string, ">") = end - 1

\* C39: over any sequence of instructions decoded on one session: the text of
\* a completed instruction carries the annotation " <addr>" exactly once, of
\* the target of this instruction, when its formatter set
\* resolved_address_valid, and no annotation otherwise; it is appended in the
\* call that takes the session from Fetching to Complete and the text is not
\* changed by later continue() or complete() calls; no target is held while
\* the next instruction is being fetched; "<decode overflow>" has none.
C39_AnnotationDiscipline ==
  [][ /\ (id'.state = ds_complete /\ id'.resolved_address_valid)
           => AnnotatedOnce(id')
      /\ (id'.state = ds_complete /\ ~id'.resolved_address_valid)
           => \/ id'.insn_string = "<decode overflow>"
              \/ StrStr(id'.insn_string, ">") = -1
      /\ id'.state = ds_fetching
           => ~id'.resolved_address_valid /\ id'.resolved_address = <<0, 0>>
      /\ (id.state = ds_complete /\ id'.state = ds_complete /\ op' # "begin")
           => id'.insn_string = id.insn_string
      /\ (id.state # ds_complete /\ id'.state = ds_complete
            /\ id'.resolved_address_valid)
           => id.state = ds_fetching /\ ret_continue' ]_vars

\* a 6800 BRA read back after it completed with its target
C39_Witness ==
  cpu = "cpu_6800" /\ op = "complete" /\ id.state = ds_complete
    /\ id.resolved_address_valid /\ id.insn_address = <<0, \h1003>>
    /\ id.insn_string = "BRA 16 <1015>" /\ ret_complete = "BRA 16 <1015>"

\* C40 (as claimed): 6809 index postbyte with bit 7 clear (const_off5), for
\* every postbyte 0x00..0x7F: the offset shown is the sign-extended
\* two's-complement value of the low 5 bits, -16..15: low bits 00001 show 1,
\* low bits 11111 show -1.
C40_Offset5SignExtended ==
  LET low == BitAnd(IndexPostbyte, \b00011111)
      d == IF low >= 16 THEN low - 32 ELSE low
      xreg == At(index_regnames, BitAnd(Shr(IndexPostbyte, 5), 3))
  IN (IndexPostbyteHeld /\ id.state = ds_complete
        /\ BitAnd(IndexPostbyte, \b10000000) = 0)
       => /\ id.addrmode = am6809_const_off5
          /\ StrStr(id.insn_string, " " \o Dec(d) \o "," \o xreg) # -1

====
